---- MODULE Spec2Model ----
(***************************************************************************)
(* A model of the pcd8544 driver crate.                                    *)
(*                                                                         *)
(* The repository holds several generations of the same driver.  Modelled  *)
(* here are:                                                               *)
(*   - src/src/display.rs, src/src/instructions.rs, src/src/textmode.rs:   *)
(*     the SPI based controller with the text view (specification Spec);   *)
(*   - src/src/lib.rs: the first, bit-banging controller that keeps a      *)
(*     pixel cursor shadow (x, y) (specification SpecLib).                 *)
(*                                                                         *)
(* Every driver function is an operator from a machine state to a machine  *)
(* state.  The machine state carries the driver's fields, the levels of    *)
(* the pins, the state of the PCD8544 chip the pins lead to, and the log   *)
(* of the pin and transport calls of the running public call.  Rust's `?`  *)
(* is modelled by the status field: once it is not "ok", every later step  *)
(* of the call is skipped.                                                 *)
(***************************************************************************)
EXTENDS Integers, Sequences, FiniteSets, TLC

VARIABLES
    drv,    \* the PCD8544 struct of the driver under test (display.rs or lib.rs)
    pins,   \* levels of the DC, CE and RST lines
    chip,   \* the PCD8544 chip at the other end of the lines
    log,    \* pin and transport calls made by the last public call (see Events)
    res,    \* how the last public call ended: "ok", "err" or "panic"
    ret,    \* <<v>> when the last call returned the value v, <<>> otherwise
    op,     \* the last public call: its name and arguments
    pre,    \* the driver, the pins and the chip's registers when the last call began
    hist,   \* names of the public calls made since construction, oldest first
    setup,  \* how many of them the program made before the calls explored
    inj     \* whether pin and transport calls may fail in this behaviour

vars == <<drv, pins, chip, log, res, ret, op, pre, hist, setup, inj>>

---------------------------------------------------------------------------
(* Dimensions *)

WIDTH == 84

HEIGHT == 48

\* lib.rs: ROWS = HEIGHT / 8; textmode.rs: ROWS = DDRAM_BANKS
ROWS == HEIGHT \div 8

\* display.rs: "(width * banks) which should be 504 bytes"
DDRAM_SIZE == WIDTH * ROWS

\* textmode.rs: COLUMNS = WIDTH / 6
COLUMNS == WIDTH \div 6

---------------------------------------------------------------------------
(* u8 arithmetic *)

Bit(n, i) == (n \div (2 ^ i)) % 2

RECURSIVE OrBits(_, _, _)
OrBits(a, b, i) ==
    IF i < 0 THEN 0
    ELSE (IF Bit(a, i) = 1 \/ Bit(b, i) = 1 THEN 2 ^ i ELSE 0) + OrBits(a, b, i - 1)

\* a | b on u8
Or8(a, b) == OrBits(a, b, 7)

RECURSIVE AndBits(_, _, _)
AndBits(a, b, i) ==
    IF i < 0 THEN 0
    ELSE (IF Bit(a, i) = 1 /\ Bit(b, i) = 1 THEN 2 ^ i ELSE 0) + AndBits(a, b, i - 1)

\* a & b on u8
And8(a, b) == AndBits(a, b, 7)

\* b as u8
B2N(b) == IF b THEN 1 ELSE 0

---------------------------------------------------------------------------
(* instructions.rs *)

TC0 == 0
TC1 == 1
TC2 == 2
TC3 == 3

Bias1To100 == 0
Bias1To80 == 1
Bias1To65 == 2
Bias1To48 == 3
Bias1To40 == 4
Bias1To24 == 5
Bias1To18 == 6
Bias1To10 == 7

DisplayBlank == 0
Normal == 4
AllSegmentsOn == 1
InverseVideo == 5

\* An Instruction value: the variant, and its arguments (unused ones are
\* FALSE / 0).
Instr(o, pd, v, h, a) == [op |-> o, pd |-> pd, v |-> v, h |-> h, arg |-> a]

NOP == Instr("NOP", FALSE, FALSE, FALSE, 0)
FunctionSet(pd, v, h) == Instr("FunctionSet", pd, v, h, 0)
SetDisplayMode(mode) == Instr("SetDisplayMode", FALSE, FALSE, FALSE, mode)
Yaddress(y) == Instr("Yaddress", FALSE, FALSE, FALSE, y)
Xaddress(x) == Instr("Xaddress", FALSE, FALSE, FALSE, x)
SetTempCoefficient(c) == Instr("SetTempCoefficient", FALSE, FALSE, FALSE, c)
SetBiasMode(mux) == Instr("SetBiasMode", FALSE, FALSE, FALSE, mux)
SetVop(c) == Instr("SetVop", FALSE, FALSE, FALSE, c)

\* Instruction::byte: the assertions of the two address instructions
byte_asserts(i) ==
    CASE i.op = "Yaddress" -> i.arg < 6
      [] i.op = "Xaddress" -> i.arg <= 84
      [] OTHER -> TRUE

\* an encoder with the codes of the comments on the enum, where Yaddress is
\* 0x20 | y and Xaddress 0x40 | x
byte_as_commented(i) ==
    CASE i.op = "NOP" -> 0
      [] i.op = "FunctionSet" ->
            Or8(Or8(Or8(32, B2N(i.pd) * 4), B2N(i.v) * 2), B2N(i.h))
      [] i.op = "SetDisplayMode" -> Or8(8, i.arg)
      [] i.op = "Yaddress" -> Or8(32, i.arg)
      [] i.op = "Xaddress" -> Or8(64, i.arg)
      [] i.op = "SetTempCoefficient" -> Or8(4, i.arg)
      [] i.op = "SetBiasMode" -> Or8(16, i.arg)
      [] i.op = "SetVop" -> Or8(128, i.arg)

\* an encoder that puts the bias system under 0x20, the code of FunctionSet
byte_bias_at_bit5(i) ==
    CASE i.op = "NOP" -> 0
      [] i.op = "FunctionSet" ->
            Or8(Or8(Or8(32, B2N(i.pd) * 4), B2N(i.v) * 2), B2N(i.h))
      [] i.op = "SetDisplayMode" -> Or8(8, i.arg)
      [] i.op = "Yaddress" -> Or8(64, i.arg)
      [] i.op = "Xaddress" -> Or8(128, i.arg)
      [] i.op = "SetTempCoefficient" -> Or8(4, i.arg)
      [] i.op = "SetBiasMode" -> Or8(32, i.arg)
      [] i.op = "SetVop" -> Or8(128, i.arg)

\* an encoder that adds the contrast to 0x80
byte_vop_added(i) ==
    CASE i.op = "NOP" -> 0
      [] i.op = "FunctionSet" ->
            Or8(Or8(Or8(32, B2N(i.pd) * 4), B2N(i.v) * 2), B2N(i.h))
      [] i.op = "SetDisplayMode" -> Or8(8, i.arg)
      [] i.op = "Yaddress" -> Or8(64, i.arg)
      [] i.op = "Xaddress" -> Or8(128, i.arg)
      [] i.op = "SetTempCoefficient" -> Or8(4, i.arg)
      [] i.op = "SetBiasMode" -> Or8(16, i.arg)
      [] i.op = "SetVop" -> 128 + i.arg

\* Instruction::byte: the wire code (defined when byte_asserts holds)
byte(i) ==
    CASE i.op = "NOP" -> 0
      [] i.op = "FunctionSet" ->
            Or8(Or8(Or8(32, B2N(i.pd) * 4), B2N(i.v) * 2), B2N(i.h))
      [] i.op = "SetDisplayMode" -> Or8(8, i.arg)
      [] i.op = "Yaddress" -> Or8(64, i.arg)
      [] i.op = "Xaddress" -> Or8(128, i.arg)
      [] i.op = "SetTempCoefficient" -> Or8(4, i.arg)
      [] i.op = "SetBiasMode" -> Or8(16, i.arg)
      [] i.op = "SetVop" -> Or8(128, i.arg)

\* Instruction::mode: FALSE for a basic, TRUE for an extended instruction
mode(i) == i.op \in {"SetTempCoefficient", "SetBiasMode", "SetVop"}

---------------------------------------------------------------------------
(* The chip: PCD8544 as the specification describes it (sections 3, 4.2    *)
(* and the glossary): a function-set register PD, V, H; a display mode;    *)
(* an address pointer (x, y) that auto-increments after each data byte;    *)
(* 504 bytes of DDRAM; commands decoded according to H.                    *)

ChipAfterReset(c) ==
    [c EXCEPT !.pd = TRUE, !.v = FALSE, !.h = FALSE, !.dm = DisplayBlank,
              !.x = 0, !.y = 0, !.tc = 0, !.bs = 0, !.vop = 0]

\* n bytes of value b
RECURSIVE Fill(_, _)
Fill(b, n) ==
    IF n = 0 THEN <<>>
    ELSE IF n % 2 = 1 THEN Append(Fill(b, n - 1), b)
    ELSE LET half == Fill(b, n \div 2) IN half \o half

\* the DDRAM is the sequence of its bytes, bank after bank: the byte of
\* column x in bank y is ddram[y * WIDTH + x + 1]
ChipPowerOn ==
    [pd |-> TRUE, v |-> FALSE, h |-> FALSE, dm |-> DisplayBlank, x |-> 0, y |-> 0,
     tc |-> 0, bs |-> 0, vop |-> 0, fs |-> 32,
     ddram |-> Fill(0, DDRAM_SIZE)]

\* a command byte, decoded in the instruction set the chip is in
ChipCommand(c, b) ==
    IF b \div 8 = 4
    THEN [c EXCEPT !.pd = Bit(b, 2) = 1, !.v = Bit(b, 1) = 1, !.h = Bit(b, 0) = 1,
                   !.fs = b]
    ELSE IF ~c.h
    THEN CASE b \in {8, 9, 12, 13} -> [c EXCEPT !.dm = b - 8]
           [] b \div 8 = 8 /\ b % 8 < ROWS -> [c EXCEPT !.y = b % 8]
           [] b >= 128 /\ b - 128 < WIDTH -> [c EXCEPT !.x = b - 128]
           [] OTHER -> c
    ELSE CASE b \div 4 = 1 -> [c EXCEPT !.tc = b % 4]
           [] b \div 8 = 2 -> [c EXCEPT !.bs = b % 8]
           [] b >= 128 -> [c EXCEPT !.vop = b - 128]
           [] OTHER -> c

\* a data byte: stored at the address pointer, which then advances
ChipData(c, b) ==
    LET c1 == [c EXCEPT !.ddram[c.y * WIDTH + c.x + 1] = b]
    IN IF ~c.v
       THEN IF c.x + 1 < WIDTH THEN [c1 EXCEPT !.x = c.x + 1]
            ELSE [c1 EXCEPT !.x = 0, !.y = (c.y + 1) % ROWS]
       ELSE IF c.y + 1 < ROWS THEN [c1 EXCEPT !.y = c.y + 1]
            ELSE [c1 EXCEPT !.y = 0, !.x = (c.x + 1) % WIDTH]

\* one byte on the serial line, with the levels of the pins as they are
ChipByte(c, p, b) ==
    IF p.ce = 1 \/ p.rst = 0 THEN c
    ELSE IF p.dc = 1 THEN ChipData(c, b) ELSE ChipCommand(c, b)

\* the bytes bs[i .. j] on the serial line, one after the other
RECURSIVE ChipRange(_, _, _, _, _)
ChipRange(c, p, bs, i, j) ==
    IF i > j THEN c
    ELSE IF i = j THEN ChipByte(c, p, bs[i])
    ELSE LET mid == (i + j) \div 2
             c1 == ChipRange(c, p, bs, i, mid)
         IN IF c1.x >= 0 THEN ChipRange(c1, p, bs, mid + 1, j) ELSE c1

ChipBytes(c, p, bs) == ChipRange(c, p, bs, 1, Len(bs))

\* a level change of a pin: RST low resets the chip
ChipPin(c, pin, lvl) ==
    IF pin = "rst" /\ lvl = 0 THEN ChipAfterReset(c) ELSE c

---------------------------------------------------------------------------
(* The machine a public call runs on *)

\* the state a public call starts in; fail = k > 0 makes the k-th pin or
\* transport call of the public call return an error, fail = 0 none; err is
\* the error a failed call returned, named after the pin or the transport
Start(d, p, c, fail) ==
    [d |-> d, pins |-> p, chip |-> c, log |-> <<>>, calls |-> 0, fail |-> fail,
     st |-> "ok", err |-> ""]

PinEvent(pin, lvl, ok) ==
    [k |-> "pin", pin |-> pin, lvl |-> lvl, bytes |-> <<>>, kind |-> "",
     dc |-> 0, ce |-> 0, ok |-> ok]

SpiEvent(bs, kind, p, ok) ==
    [k |-> "spi", pin |-> "", lvl |-> 0, bytes |-> bs, kind |-> kind,
     dc |-> p.dc, ce |-> p.ce, ok |-> ok]

\* OutputPin::set_low / set_high on the pin named
PinSet(m, pin, lvl) ==
    IF m.st # "ok" THEN m
    ELSE IF m.calls + 1 = m.fail
    THEN [m EXCEPT !.calls = @ + 1, !.st = "err", !.err = pin,
                   !.log = Append(@, PinEvent(pin, lvl, FALSE))]
    ELSE [m EXCEPT !.calls = @ + 1,
                   !.pins = IF pin \in DOMAIN @ THEN [@ EXCEPT ![pin] = lvl] ELSE @,
                   !.chip = ChipPin(@, pin, lvl),
                   !.log = Append(@, PinEvent(pin, lvl, TRUE))]

\* spi::Write::write; kind records which function hands the bytes over
SpiWrite(m, bs, kind) ==
    IF m.st # "ok" THEN m
    ELSE IF m.calls + 1 = m.fail
    THEN [m EXCEPT !.calls = @ + 1, !.st = "err", !.err = "spi",
                   !.log = Append(@, SpiEvent(bs, kind, m.pins, FALSE))]
    ELSE [m EXCEPT !.calls = @ + 1,
                   !.chip = ChipBytes(@, m.pins, bs),
                   !.log = Append(@, SpiEvent(bs, kind, m.pins, TRUE))]

\* a failed assert!: the call panics
Panic(m) == IF m.st # "ok" THEN m ELSE [m EXCEPT !.st = "panic"]

\* an assignment to a field of the driver struct
SetField(m, f, val) == IF m.st # "ok" THEN m ELSE [m EXCEPT !.d[f] = val]

\* a loop `for _ in 0..n { step?; }`: step n times, one after the other,
\* left at the first step that does not end "ok"
RECURSIVE Steps(_, _, _)
Steps(step(_), m, n) ==
    IF m.st # "ok" \/ n = 0 THEN m
    ELSE IF n = 1 THEN step(m)
    ELSE Steps(step, Steps(step, m, n \div 2), n - n \div 2)

\* n times the events of one pass of a loop, as one entry of the log
Passes(n, body) == [k |-> "rep", n |-> n, body |-> body]

\* The loop, with its events written down once when every pass made the
\* same ones: the log then holds Passes(n, events of a pass) in place of
\* the n copies.
Repeat(step(_), m, n) ==
    LET r == Steps(step, m, n)
        from == Len(m.log)
        body == SubSeq(step(m).log, from + 1, Len(step(m).log))
        len == Len(body)
    IN IF /\ m.st = "ok"
          /\ n > 1
          /\ r.st = "ok"
          /\ len > 0
          /\ Len(r.log) = from + n * len
          /\ \A i \in 1 .. n * len : r.log[from + i] = body[((i - 1) % len) + 1]
       THEN [r EXCEPT !.log = Append(m.log, Passes(n, body))]
       ELSE r

---------------------------------------------------------------------------
(* display.rs *)

\* a send that still drives CE high after the transport returned an error
send_deselects(m, bytes, kind) ==
    LET m1 == SpiWrite(PinSet(m, "ce", 0), bytes, kind)
    IN IF m1.st = "err" /\ m1.err = "spi"
       THEN [PinSet([m1 EXCEPT !.st = "ok"], "ce", 1) EXCEPT !.st = "err", !.err = "spi"]
       ELSE PinSet(m1, "ce", 1)

\* PCD8544::send
send(m, bytes, kind) ==
    PinSet(SpiWrite(PinSet(m, "ce", 0), bytes, kind), "ce", 1)

\* PCD8544::write_commands
write_commands(m, commands) == send(PinSet(m, "dc", 0), commands, "cmd")

\* a write_command that leaves out the function-set byte
write_command_bare(m, instruction) ==
    IF m.st # "ok" THEN m
    ELSE IF ~byte_asserts(instruction) THEN Panic(m)
    ELSE write_commands(m, <<byte(instruction)>>)

\* a write_command whose function-set byte always selects the basic set
write_command_basic(m, instruction) ==
    IF m.st # "ok" THEN m
    ELSE IF ~byte_asserts(instruction) THEN Panic(m)
    ELSE write_commands(m,
            <<byte(FunctionSet(m.d.power_down_control, m.d.entry_mode, FALSE)),
              byte(instruction)>>)

\* PCD8544::write_command
write_command(m, instruction) ==
    IF m.st # "ok" THEN m
    ELSE IF ~byte_asserts(instruction) THEN Panic(m)
    ELSE write_commands(m,
            <<byte(FunctionSet(m.d.power_down_control, m.d.entry_mode,
                               mode(instruction))),
              byte(instruction)>>)

\* a write_data that leaves D/C low
write_data_dc_low(m, data) ==
    PinSet(send(PinSet(m, "dc", 0), data, "data"), "dc", 0)

\* PCD8544::write_data
write_data(m, data) ==
    PinSet(send(PinSet(m, "dc", 1), data, "data"), "dc", 0)

write_zero(m) == write_data(m, <<0>>)

\* a hw_cls that sends one zero byte less than the DDRAM holds
hw_cls_short(m) ==
    write_command(write_command(Repeat(write_zero, m, DDRAM_SIZE - 1), Xaddress(0)),
                  Yaddress(0))

\* PCD8544::hw_cls
hw_cls(m) ==
    write_command(write_command(Repeat(write_zero, m, DDRAM_SIZE), Xaddress(0)),
                  Yaddress(0))

\* an initialisation sequence that sets Vop before it selects the extended
\* instruction set
init_sequence_vop_first ==
    << byte(SetVop(65)),
       byte(FunctionSet(FALSE, FALSE, TRUE)),
       byte(SetTempCoefficient(TC2)),
       byte(SetBiasMode(Bias1To48)),
       byte(FunctionSet(FALSE, FALSE, FALSE)),
       byte(SetDisplayMode(Normal)) >>

\* PCD8544::init_sequence
init_sequence ==
    << byte(FunctionSet(FALSE, FALSE, TRUE)),
       byte(SetVop(65)),
       byte(SetTempCoefficient(TC2)),
       byte(SetBiasMode(Bias1To48)),
       byte(FunctionSet(FALSE, FALSE, FALSE)),
       byte(SetDisplayMode(Normal)) >>

\* a reset that keeps the shadow flags the driver had
reset_keeps_flags(m) ==
    hw_cls(write_commands(PinSet(PinSet(m, "rst", 0), "rst", 1), init_sequence))

\* PCD8544::reset
reset(m) ==
    LET m1 == PinSet(PinSet(m, "rst", 0), "rst", 1)
        m2 == SetField(SetField(m1, "power_down_control", FALSE), "entry_mode", FALSE)
    IN hw_cls(write_commands(m2, init_sequence))

\* PCD8544::new: the struct literal.  overflow_checks is not a field of the
\* struct: it is the build the program is of, TRUE where u8 arithmetic that
\* overflows panics (the debug profile), FALSE where it wraps (release)
NewDrv == [power_down_control |-> FALSE, entry_mode |-> FALSE,
           text_col |-> 0, text_row |-> 0, overflow_checks |-> TRUE]

\* PCD8544::set_power_down
set_power_down(m, power_down) ==
    LET m1 == SetField(m, "power_down_control", power_down)
    IN IF m1.st # "ok" THEN m1
       ELSE write_commands(m1,
              <<byte(FunctionSet(m1.d.power_down_control, m1.d.entry_mode, FALSE))>>)

\* PCD8544::set_display_mode
set_display_mode(m, dm) == write_command(m, SetDisplayMode(dm))

\* PCD8544::set_bias_mode
set_bias_mode(m, bias) == write_command(m, SetBiasMode(bias))

\* PCD8544::set_temperature_coefficient
set_temperature_coefficient(m, coefficient) ==
    write_command(m, SetTempCoefficient(coefficient))

\* PCD8544::set_contrast
set_contrast(m, contrast) == write_command(m, SetVop(contrast))

\* PCD8544::set_light
set_light(m, enabled) ==
    IF enabled THEN PinSet(m, "light", 0) ELSE PinSet(m, "light", 1)

---------------------------------------------------------------------------
(* textmode.rs *)

\* char_to_bytes: the 6x8 font; a character is its code point
char_to_bytes(c) ==
    CASE c = 32 -> <<0, 0, 0, 0, 0>>
      [] c = 33 -> <<0, 0, 95, 0, 0>>
      [] c = 34 -> <<0, 7, 0, 7, 0>>
      [] c = 35 -> <<20, 127, 20, 127, 20>>
      [] c = 36 -> <<36, 42, 127, 42, 18>>
      [] c = 37 -> <<35, 19, 8, 100, 98>>
      [] c = 38 -> <<54, 73, 85, 34, 80>>
      [] c = 39 -> <<0, 5, 3, 0, 0>>
      [] c = 40 -> <<0, 28, 34, 65, 0>>
      [] c = 41 -> <<0, 65, 34, 28, 0>>
      [] c = 42 -> <<20, 8, 62, 8, 20>>
      [] c = 43 -> <<8, 8, 62, 8, 8>>
      [] c = 44 -> <<0, 80, 48, 0, 0>>
      [] c = 45 -> <<8, 8, 8, 8, 8>>
      [] c = 46 -> <<0, 96, 96, 0, 0>>
      [] c = 47 -> <<32, 16, 8, 4, 2>>
      [] c = 48 -> <<62, 81, 73, 69, 62>>
      [] c = 49 -> <<0, 66, 127, 64, 0>>
      [] c = 50 -> <<66, 97, 81, 73, 70>>
      [] c = 51 -> <<33, 65, 69, 75, 49>>
      [] c = 52 -> <<24, 20, 18, 127, 16>>
      [] c = 53 -> <<39, 69, 69, 69, 57>>
      [] c = 54 -> <<60, 74, 73, 73, 48>>
      [] c = 55 -> <<1, 113, 9, 5, 3>>
      [] c = 56 -> <<54, 73, 73, 73, 54>>
      [] c = 57 -> <<6, 73, 73, 41, 30>>
      [] c = 58 -> <<0, 54, 54, 0, 0>>
      [] c = 59 -> <<0, 86, 54, 0, 0>>
      [] c = 60 -> <<8, 20, 34, 65, 0>>
      [] c = 61 -> <<20, 20, 20, 20, 20>>
      [] c = 62 -> <<0, 65, 34, 20, 8>>
      [] c = 63 -> <<2, 1, 81, 9, 6>>
      [] c = 64 -> <<50, 73, 121, 65, 62>>
      [] c = 65 -> <<126, 17, 17, 17, 126>>
      [] c = 66 -> <<127, 73, 73, 73, 54>>
      [] c = 67 -> <<62, 65, 65, 65, 34>>
      [] c = 68 -> <<127, 65, 65, 34, 28>>
      [] c = 69 -> <<127, 73, 73, 73, 65>>
      [] c = 70 -> <<127, 9, 9, 9, 1>>
      [] c = 71 -> <<62, 65, 73, 73, 122>>
      [] c = 72 -> <<127, 8, 8, 8, 127>>
      [] c = 73 -> <<0, 65, 127, 65, 0>>
      [] c = 74 -> <<32, 64, 65, 63, 1>>
      [] c = 75 -> <<127, 8, 20, 34, 65>>
      [] c = 76 -> <<127, 64, 64, 64, 64>>
      [] c = 77 -> <<127, 2, 12, 2, 127>>
      [] c = 78 -> <<127, 4, 8, 16, 127>>
      [] c = 79 -> <<62, 65, 65, 65, 62>>
      [] c = 80 -> <<127, 9, 9, 9, 6>>
      [] c = 81 -> <<62, 65, 81, 33, 94>>
      [] c = 82 -> <<127, 9, 25, 41, 70>>
      [] c = 83 -> <<70, 73, 73, 73, 49>>
      [] c = 84 -> <<1, 1, 127, 1, 1>>
      [] c = 85 -> <<63, 64, 64, 64, 63>>
      [] c = 86 -> <<31, 32, 64, 32, 31>>
      [] c = 87 -> <<63, 64, 56, 64, 63>>
      [] c = 88 -> <<99, 20, 8, 20, 99>>
      [] c = 89 -> <<7, 8, 112, 8, 7>>
      [] c = 90 -> <<97, 81, 73, 69, 67>>
      [] c = 91 -> <<0, 127, 65, 65, 0>>
      [] c = 165 -> <<2, 4, 8, 16, 32>>
      [] c = 93 -> <<0, 65, 65, 127, 0>>
      [] c = 94 -> <<4, 2, 1, 2, 4>>
      [] c = 95 -> <<64, 64, 64, 64, 64>>
      [] c = 96 -> <<0, 1, 2, 4, 0>>
      [] c = 97 -> <<32, 84, 84, 84, 120>>
      [] c = 98 -> <<127, 72, 68, 68, 56>>
      [] c = 99 -> <<56, 68, 68, 68, 32>>
      [] c = 100 -> <<56, 68, 68, 72, 127>>
      [] c = 101 -> <<56, 84, 84, 84, 24>>
      [] c = 102 -> <<8, 126, 9, 1, 2>>
      [] c = 103 -> <<12, 82, 82, 82, 62>>
      [] c = 104 -> <<127, 8, 4, 4, 120>>
      [] c = 105 -> <<0, 68, 125, 64, 0>>
      [] c = 106 -> <<32, 64, 68, 61, 0>>
      [] c = 107 -> <<127, 16, 40, 68, 0>>
      [] c = 108 -> <<0, 65, 127, 64, 0>>
      [] c = 109 -> <<124, 4, 24, 4, 120>>
      [] c = 110 -> <<124, 8, 4, 4, 120>>
      [] c = 111 -> <<56, 68, 68, 68, 56>>
      [] c = 112 -> <<124, 20, 20, 20, 8>>
      [] c = 113 -> <<8, 20, 20, 24, 124>>
      [] c = 114 -> <<124, 8, 4, 4, 8>>
      [] c = 115 -> <<72, 84, 84, 84, 32>>
      [] c = 116 -> <<4, 63, 68, 64, 32>>
      [] c = 117 -> <<60, 64, 64, 32, 124>>
      [] c = 118 -> <<28, 32, 64, 32, 28>>
      [] c = 119 -> <<60, 64, 48, 64, 60>>
      [] c = 120 -> <<68, 40, 16, 40, 68>>
      [] c = 121 -> <<12, 80, 80, 80, 60>>
      [] c = 122 -> <<68, 100, 84, 76, 68>>
      [] c = 123 -> <<0, 8, 54, 65, 0>>
      [] c = 124 -> <<0, 0, 127, 0, 0>>
      [] c = 125 -> <<0, 65, 54, 8, 0>>
      [] c = 8592 -> <<16, 8, 8, 16, 8>>
      [] c = 8594 -> <<120, 70, 65, 70, 120>>
      [] c = 176 -> <<0, 2, 5, 2, 0>>
      [] OTHER -> <<255, 255, 255, 255, 255>>

\* a set_col that takes a column past the last one for the last one
set_col_clamped(m, new_col) ==
    IF m.st # "ok" THEN m
    ELSE LET col == IF new_col < COLUMNS THEN new_col ELSE COLUMNS - 1
         IN write_command(SetField(m, "text_col", col), Xaddress((col * 6) % 256))

\* TextMode::set_col
set_col(m, new_col) ==
    IF m.st # "ok" THEN m
    ELSE IF new_col >= 0 /\ new_col < COLUMNS
    THEN write_command(SetField(m, "text_col", new_col), Xaddress((new_col * 6) % 256))
    ELSE m

\* a set_row without the bounds check
set_row_unchecked(m, new_row) ==
    IF m.st # "ok" THEN m
    ELSE write_command(SetField(m, "text_row", new_row), Yaddress(new_row))

\* TextMode::set_row
set_row(m, new_row) ==
    IF m.st # "ok" THEN m
    ELSE IF new_row >= 0 /\ new_row < ROWS
    THEN write_command(SetField(m, "text_row", new_row), Yaddress(new_row))
    ELSE m

\* TextMode::set_position
set_position(m, new_col, new_row) == set_row(set_col(m, new_col), new_row)

\* a cr_lf that goes on to row 6 after row 5
cr_lf_no_ring(m) ==
    IF m.st # "ok" THEN m
    ELSE IF m.d.text_col = 14
    THEN SetField(SetField(m, "text_col", 0), "text_row", (m.d.text_row + 1) % 256)
    ELSE m

\* TextMode::cr_lf; `self.text_row += 1` on row 255 panics with overflow
\* checks, after text_col was set, and wraps to 0 without
cr_lf(m) ==
    IF m.st # "ok" THEN m
    ELSE IF m.d.text_col = 14
    THEN LET m1 == SetField(m, "text_col", 0)
         IN IF m.d.text_row = 5 THEN SetField(m1, "text_row", 0)
            ELSE IF m.d.text_row + 1 > 255 /\ m.d.overflow_checks THEN Panic(m1)
            ELSE SetField(m1, "text_row", (m.d.text_row + 1) % 256)
    ELSE m

\* an increase_position that leaves the carriage return to the next call
increase_position_no_wrap(m) ==
    IF m.st # "ok" THEN m
    ELSE SetField(m, "text_col", (m.d.text_col + 1) % 256)

\* TextMode::increase_position; `self.text_col += 1` on column 255 panics
\* with overflow checks and wraps to 0 without
increase_position(m) ==
    IF m.st # "ok" THEN m
    ELSE IF m.d.text_col + 1 > 255 /\ m.d.overflow_checks THEN Panic(m)
    ELSE cr_lf(SetField(m, "text_col", (m.d.text_col + 1) % 256))

\* TextMode::cls
cls(m) == hw_cls(SetField(SetField(m, "text_col", 0), "text_row", 0))

\* a gap of the width of a glyph, five columns
write_gap_narrow(m) == write_data(m, <<0, 0, 0, 0, 0>>)

write_gap(m) == write_data(m, <<0, 0, 0, 0, 0, 0>>)

\* a write_str that moves the text cursor before it sends the character
write_chr_advance_first(m, c) ==
    IF m.st # "ok" THEN m
    ELSE IF c = 13 THEN set_col(m, 0)
    ELSE IF c = 10
    THEN IF COLUMNS - m.d.text_col < 0 THEN Panic(m)
         ELSE LET padding == COLUMNS - m.d.text_col
                  m1 == Repeat(write_gap, m, padding)
              IN IF m1.st # "ok" THEN m1
                 ELSE cr_lf(SetField(m1, "text_col", (m1.d.text_col + padding) % 256))
    ELSE write_data(write_data(increase_position(m), char_to_bytes(c)), <<0>>)

\* Write::write_str: one character.  `COLUMNS - self.text_col` below zero
\* panics with overflow checks and wraps without: the padding is then
\* 256 + COLUMNS - text_col gaps, and `self.text_col += padding` wraps to 14
write_chr(m, c) ==
    IF m.st # "ok" THEN m
    ELSE IF c = 13 THEN set_col(m, 0)
    ELSE IF c = 10
    THEN IF COLUMNS - m.d.text_col < 0 /\ m.d.overflow_checks THEN Panic(m)
         ELSE LET padding == (COLUMNS - m.d.text_col) % 256
                  m1 == Repeat(write_gap, m, padding)
              IN IF m1.st # "ok" THEN m1
                 ELSE cr_lf(SetField(m1, "text_col", (m1.d.text_col + padding) % 256))
    ELSE increase_position(write_data(write_data(m, char_to_bytes(c)), <<0>>))

\* Write::write_str: the loop over the characters of s
RECURSIVE write_chars(_, _)
write_chars(m, s) ==
    IF m.st # "ok" \/ s = <<>> THEN m
    ELSE write_chars(write_chr(m, Head(s)), Tail(s))

\* Write::write_str: every error of a pin or of the transport is mapped to
\* fmt::Error, `.map_err(|_| FmtError)?`
write_str(m, s) ==
    LET m1 == write_chars(m, s)
    IN IF m.st = "ok" /\ m1.st = "err" THEN [m1 EXCEPT !.err = "fmt::Error"] ELSE m1

\* PCD8544::new: the struct literal, then reset()
new == reset(Start(NewDrv, [dc |-> 0, ce |-> 1, rst |-> 1], ChipPowerOn, 0))

---------------------------------------------------------------------------
(* lib.rs: the bit-banging controller with the pixel cursor shadow.  Its    *)
(* pins cannot fail (set_low and set_high return nothing).                 *)

\* write_byte's loop: the levels write_bit puts on DIN, one per clock pulse
RECURSIVE ShiftOut(_, _)
ShiftOut(value, n) ==
    IF n = 0 THEN <<>>
    ELSE <<Bit(value, 7) = 1>> \o ShiftOut((value * 2) % 256, n - 1)

\* the byte the chip assembles from the levels it clocks in, first bit highest
RECURSIVE ShiftIn(_, _)
ShiftIn(bits, acc) ==
    IF bits = <<>> THEN acc ELSE ShiftIn(Tail(bits), 2 * acc + B2N(Head(bits)))

\* PCD8544::increase_position (lib.rs; texttarget.rs has the same body)
lib_increase_position(m) ==
    LET m1 == SetField(m, "x", (m.d.x + 1) % WIDTH)
    IN IF m1.d.x = 0 THEN SetField(m1, "y", And8(m1.d.y + 1, ROWS)) ELSE m1

\* PCD8544::write_byte
lib_write_byte(m, data, value) ==
    LET m1 == IF data THEN lib_increase_position(PinSet(m, "dc", 1))
              ELSE PinSet(m, "dc", 0)
        m2 == PinSet(m1, "ce", 0)
        m3 == SpiWrite(m2, <<ShiftIn(ShiftOut(value, 8), 0)>>,
                       IF data THEN "data" ELSE "cmd")
    IN PinSet(m3, "ce", 1)

\* PCD8544::write_command (lib.rs)
lib_write_command(m, value) == lib_write_byte(m, FALSE, value)

\* PCD8544::write_data (lib.rs)
lib_write_data(m, value) == lib_write_byte(m, TRUE, value)

lib_write_zero(m) == lib_write_data(m, 0)

\* PCD8544::set_x_position
lib_set_x_position(m, x) ==
    LET x1 == x % WIDTH
    IN lib_write_command(SetField(m, "x", x1), Or8(128, x1))

\* PCD8544::set_y_position
lib_set_y_position(m, y) ==
    LET y1 == y % ROWS
    IN lib_write_command(SetField(m, "y", y1), Or8(64, y1))

\* PCD8544::write_function_set
lib_write_function_set(m, power_down_control, entry_mode, extended_instruction_set) ==
    LET v0 == 32
        v1 == IF power_down_control THEN Or8(v0, 4) ELSE v0
        v2 == IF entry_mode THEN Or8(v1, 2) ELSE v1
        v3 == IF extended_instruction_set THEN Or8(v2, 1) ELSE v2
    IN lib_write_command(m, v3)

\* a write_current_function_set that leaves the extended flag out
lib_write_basic_function_set(m) ==
    lib_write_function_set(m, m.d.power_down_control, m.d.entry_mode, FALSE)

\* PCD8544::write_current_function_set
lib_write_current_function_set(m) ==
    lib_write_function_set(m, m.d.power_down_control, m.d.entry_mode,
                           m.d.extended_instruction_set)

\* PCD8544::set_power_down (lib.rs)
lib_set_power_down(m, power_down) ==
    lib_write_current_function_set(SetField(m, "power_down_control", power_down))

\* PCD8544::set_entry_mode
lib_set_entry_mode(m, entry_mode) ==
    lib_write_current_function_set(SetField(m, "entry_mode", entry_mode))

\* PCD8544::enable_extended_commands
lib_enable_extended_commands(m, enable) ==
    lib_write_current_function_set(SetField(m, "extended_instruction_set", enable))

\* PCD8544::set_light (lib.rs)
lib_set_light(m, enabled) ==
    IF enabled THEN PinSet(m, "light", 0) ELSE PinSet(m, "light", 1)

\* PCD8544::set_display_mode (lib.rs)
lib_set_display_mode(m, dm) == lib_write_command(m, Or8(8, dm))

\* PCD8544::set_bias_mode (lib.rs)
lib_set_bias_mode(m, bias) == lib_write_command(m, Or8(16, bias))

\* PCD8544::set_temperature_coefficient (lib.rs)
lib_set_temperature_coefficient(m, coefficient) ==
    lib_write_command(m, Or8(4, coefficient))

\* PCD8544::set_contrast (lib.rs)
lib_set_contrast(m, contrast) == lib_write_command(m, Or8(128, contrast))

\* PCD8544::clear
lib_clear(m) ==
    lib_set_y_position(lib_set_x_position(Repeat(lib_write_zero, m, WIDTH * ROWS), 0), 0)

\* PCD8544::init
lib_init(m) ==
    LET m1 == PinSet(PinSet(m, "rst", 0), "rst", 1)
        m2 == SetField(SetField(SetField(m1, "power_down_control", FALSE),
                                "entry_mode", FALSE),
                       "extended_instruction_set", FALSE)
        m3 == lib_enable_extended_commands(m2, TRUE)
        m4 == lib_set_contrast(m3, 56)
        m5 == lib_set_temperature_coefficient(m4, TC3)
        m6 == lib_set_bias_mode(m5, Bias1To40)
        m7 == lib_enable_extended_commands(m6, FALSE)
        m8 == lib_set_display_mode(m7, Normal)
    IN lib_clear(m8)

\* PCD8544::reset (lib.rs)
lib_reset(m) ==
    lib_init(SetField(SetField(PinSet(m, "rst", 0), "x", 0), "y", 0))

\* Write::write_str (lib.rs): one character
lib_write_chr(m, c) ==
    IF c = 13 THEN lib_set_x_position(m, 0)
    ELSE IF c = 10 THEN Repeat(lib_write_zero, m, WIDTH - m.d.x)
    ELSE LET g == char_to_bytes(c)
         IN lib_write_data(lib_write_data(lib_write_data(lib_write_data(
                lib_write_data(lib_write_data(m, g[1]), g[2]), g[3]), g[4]), g[5]), 0)

\* Write::write_str (lib.rs)
RECURSIVE lib_write_str(_, _)
lib_write_str(m, s) ==
    IF m.st # "ok" \/ s = <<>> THEN m
    ELSE lib_write_str(lib_write_chr(m, Head(s)), Tail(s))

\* PCD8544::new (lib.rs)
LibNewDrv == [power_down_control |-> FALSE, entry_mode |-> FALSE,
              extended_instruction_set |-> FALSE, x |-> 0, y |-> 0]

PowerOnPins == [dc |-> 0, ce |-> 1, rst |-> 1]

lib_new ==
    PinSet(PinSet(PinSet(Start(LibNewDrv, PowerOnPins, ChipPowerOn, 0),
                         "clk", 0), "rst", 0), "ce", 1)

---------------------------------------------------------------------------
(* Public calls as actions *)

\* number of public calls in a behaviour
MaxCalls == 2

\* a failing pin or transport call is one of the first MaxFail of its
\* public call
MaxFail == 5

Fails == IF inj THEN 0 .. MaxFail ELSE {0}

\* the machine a public call starts on
Begin(fail) == Start(drv, pins, chip, fail)

\* whether a further public call is made: the program has not panicked.
\* After a call that returned an error every method can be called as after
\* one that returned Ok.
CanCall(name) ==
    /\ Len(hist) < setup + MaxCalls
    /\ res # "panic"

\* the registers of the chip, without the display RAM
Registers(c) == [c EXCEPT !.ddram = <<>>]

\* the call `name(args)` ran and left the machine m
Done(name, args, m) ==
    /\ drv' = m.d
    /\ pins' = m.pins
    /\ chip' = m.chip
    /\ log' = m.log
    /\ res' = m.st
    /\ ret' = IF m.st = "err" THEN <<m.err>> ELSE <<>>
    /\ op' = [name |-> name, args |-> args]
    /\ pre' = [d |-> drv, pins |-> pins, chip |-> Registers(chip)]
    /\ hist' = Append(hist, name)
    /\ UNCHANGED <<setup, inj>>

\* the public call `name(args)` of a driver ran and left the machine m
Run(name, args, m) == CanCall(name) /\ Done(name, args, m)

\* the state PCD8544::new returns (display.rs)
InitWith(injected) ==
    /\ \E checks \in BOOLEAN :
           /\ drv = [new.d EXCEPT !.overflow_checks = checks]
           /\ pre = [d |-> [NewDrv EXCEPT !.overflow_checks = checks], pins |-> PowerOnPins,
                     chip |-> Registers(ChipPowerOn)]
    /\ pins = new.pins
    /\ chip = new.chip
    /\ log = new.log
    /\ res = new.st
    /\ ret = <<>>
    /\ op = [name |-> "new", args |-> <<>>]
    /\ hist = <<>>
    /\ setup = 0
    /\ inj = injected

Init == InitWith(FALSE)

InitFail == InitWith(TRUE)

\* arguments the calls are made with
CommandArgs ==
    { NOP, FunctionSet(TRUE, FALSE, FALSE), FunctionSet(FALSE, TRUE, TRUE),
      SetDisplayMode(InverseVideo), Yaddress(5), Yaddress(6),
      Xaddress(83), Xaddress(84), Xaddress(85),
      SetTempCoefficient(TC1), SetBiasMode(Bias1To40), SetVop(200) }

DataArgs == { <<170>>, <<1, 2, 3>>, <<1, 2, 3, 4, 5, 6>> }

ContrastArgs == { 127, 200 }

Reset == \E f \in Fails : Run("reset", <<>>, reset(Begin(f)))

HwCls == \E f \in Fails : Run("hw_cls", <<>>, hw_cls(Begin(f)))

WriteCommand ==
    \E f \in Fails, i \in CommandArgs :
        Run("write_command", <<i>>, write_command(Begin(f), i))

WriteData ==
    \E f \in Fails, data \in DataArgs :
        Run("write_data", <<data>>, write_data(Begin(f), data))

SetPowerDown ==
    \E f \in Fails, b \in BOOLEAN :
        Run("set_power_down", <<b>>, set_power_down(Begin(f), b))

SetDisplayModeCall ==
    \E f \in Fails, dm \in {DisplayBlank, Normal} :
        Run("set_display_mode", <<dm>>, set_display_mode(Begin(f), dm))

SetBiasModeCall ==
    \E f \in Fails, b \in {Bias1To10} :
        Run("set_bias_mode", <<b>>, set_bias_mode(Begin(f), b))

SetTemperatureCoefficient ==
    \E f \in Fails, c \in {TC0} :
        Run("set_temperature_coefficient", <<c>>,
            set_temperature_coefficient(Begin(f), c))

SetContrast ==
    \E f \in Fails, c \in ContrastArgs :
        Run("set_contrast", <<c>>, set_contrast(Begin(f), c))

SetLight ==
    \E f \in Fails, b \in BOOLEAN :
        Run("set_light", <<b>>, set_light(Begin(f), b))

ColArgs == { 3, 13, 14 }

RowArgs == { 5, 6 }

PositionArgs == { <<13, 5>>, <<14, 2>>, <<2, 200>> }

\* "HI", "\n", "\r", "A\n", a character that is not in the font, "" and
\* "0123456789ABCDE", one character more than a row holds
StrArgs ==
    { <<72, 73>>, <<10>>, <<13>>, <<65, 10>>, <<181>>, <<>>,
      <<48, 49, 50, 51, 52, 53, 54, 55, 56, 57, 65, 66, 67, 68, 69>> }

SetCol ==
    \E f \in Fails, c \in ColArgs : Run("set_col", <<c>>, set_col(Begin(f), c))

SetRow ==
    \E f \in Fails, r \in RowArgs : Run("set_row", <<r>>, set_row(Begin(f), r))

SetPosition ==
    \E f \in Fails, a \in PositionArgs :
        Run("set_position", a, set_position(Begin(f), a[1], a[2]))

WriteStr ==
    \E f \in Fails, s \in StrArgs : Run("write_str", <<s>>, write_str(Begin(f), s))

Cls == \E f \in Fails : Run("cls", <<>>, cls(Begin(f)))

\* TextMode::cr_lf and TextMode::increase_position, methods of the public
\* trait, called by the user: they make no pin or transport call
CrLf == Run("cr_lf", <<>>, cr_lf(Begin(0)))

IncreasePosition == Run("increase_position", <<>>, increase_position(Begin(0)))

\* the controller of display.rs and its text view
Next ==
    \/ Reset
    \/ HwCls
    \/ WriteCommand
    \/ WriteData
    \/ SetPowerDown
    \/ SetDisplayModeCall
    \/ SetBiasModeCall
    \/ SetTemperatureCoefficient
    \/ SetContrast
    \/ SetLight
    \/ SetCol
    \/ SetRow
    \/ SetPosition
    \/ WriteStr
    \/ Cls
    \/ CrLf
    \/ IncreasePosition

Spec == Init /\ [][Next]_vars

\* the same calls, with pin and transport calls that may fail
SpecFail == InitFail /\ [][Next]_vars

---------------------------------------------------------------------------
(* The controller of lib.rs *)

\* the machine as the next public call finds it
Returned(m) == Start(m.d, m.pins, m.chip, 0)

\* What the program did before the calls that are explored: it constructed
\* the driver, and then made no call, or reset(), or reset() and
\* set_x_position(5).
LibSetups == { <<>>, <<"reset">>, <<"reset", "set_x_position">> }

LibAfter(s) ==
    CASE s = <<>> -> lib_new
      [] s = <<"reset">> -> lib_reset(Returned(lib_new))
      [] s = <<"reset", "set_x_position">> ->
            lib_set_x_position(Returned(lib_reset(Returned(lib_new))), 5)

\* the machine the last call of the setup s started on
LibBefore(s) ==
    CASE s = <<>> -> Start(LibNewDrv, PowerOnPins, ChipPowerOn, 0)
      [] s = <<"reset">> -> Returned(lib_new)
      [] s = <<"reset", "set_x_position">> -> Returned(lib_reset(Returned(lib_new)))

InitLib ==
    \E s \in LibSetups :
        /\ drv = LibAfter(s).d
        /\ pins = LibAfter(s).pins
        /\ chip = LibAfter(s).chip
        /\ log = LibAfter(s).log
        /\ res = LibAfter(s).st
        /\ ret = <<>>
        /\ op = CASE s = <<>> -> [name |-> "new", args |-> <<>>]
                  [] s = <<"reset">> -> [name |-> "reset", args |-> <<>>]
                  [] OTHER -> [name |-> "set_x_position", args |-> <<5>>]
        /\ pre = [d |-> LibBefore(s).d, pins |-> LibBefore(s).pins,
                  chip |-> Registers(LibBefore(s).chip)]
        /\ hist = s
        /\ setup = Len(s)
        /\ inj = FALSE

LibM == Start(drv, pins, chip, 0)

XArgs == { 0, 5, 83, 84, 255 }

YArgs == { 0, 1, 5, 6, 255 }

LibReset == Run("reset", <<>>, lib_reset(LibM))

LibInit == Run("init", <<>>, lib_init(LibM))

LibClear == Run("clear", <<>>, lib_clear(LibM))

LibSetXPosition ==
    \E x \in XArgs : Run("set_x_position", <<x>>, lib_set_x_position(LibM, x))

LibSetYPosition ==
    \E y \in YArgs : Run("set_y_position", <<y>>, lib_set_y_position(LibM, y))

LibWriteData ==
    \E b \in {0, 170} : Run("write_data", <<b>>, lib_write_data(LibM, b))

LibWriteStr ==
    \E s \in StrArgs : Run("write_str", <<s>>, lib_write_str(LibM, s))

LibSetContrast ==
    \E c \in ContrastArgs : Run("set_contrast", <<c>>, lib_set_contrast(LibM, c))

LibSetBiasMode ==
    \E b \in {Bias1To10} : Run("set_bias_mode", <<b>>, lib_set_bias_mode(LibM, b))

LibSetTemperatureCoefficient ==
    \E c \in {TC0} :
        Run("set_temperature_coefficient", <<c>>,
            lib_set_temperature_coefficient(LibM, c))

LibSetDisplayMode ==
    \E dm \in {DisplayBlank, InverseVideo} :
        Run("set_display_mode", <<dm>>, lib_set_display_mode(LibM, dm))

LibSetPowerDown ==
    \E b \in BOOLEAN : Run("set_power_down", <<b>>, lib_set_power_down(LibM, b))

LibSetEntryMode ==
    \E b \in BOOLEAN : Run("set_entry_mode", <<b>>, lib_set_entry_mode(LibM, b))

LibSetLight ==
    \E b \in BOOLEAN : Run("set_light", <<b>>, lib_set_light(LibM, b))

LibEnableExtendedCommands ==
    \E b \in BOOLEAN :
        Run("enable_extended_commands", <<b>>, lib_enable_extended_commands(LibM, b))

\* command bytes given to write_command: NOP and, for the basic
\* instruction set, X address 5
LibCommandArgs == { 0, 133 }

LibWriteCommand ==
    \E v \in LibCommandArgs : Run("write_command", <<v>>, lib_write_command(LibM, v))

NextLib ==
    \/ LibReset
    \/ LibWriteCommand
    \/ LibInit
    \/ LibClear
    \/ LibSetXPosition
    \/ LibSetYPosition
    \/ LibWriteData
    \/ LibWriteStr
    \/ LibSetContrast
    \/ LibSetBiasMode
    \/ LibSetTemperatureCoefficient
    \/ LibSetDisplayMode
    \/ LibSetPowerDown
    \/ LibSetEntryMode
    \/ LibEnableExtendedCommands
    \/ LibSetLight

SpecLib == InitLib /\ [][NextLib]_vars

---------------------------------------------------------------------------
(* graphics.rs: the framebuffer of the display.rs driver, built with the   *)
(* features textmode and graphics.  The framebuffer is the sequence of its *)
(* bytes: framebuffer[i] of the code is framebuffer[i + 1] here.           *)

\* the struct literal of PCD8544::new with both features
GraphicsDrv ==
    [power_down_control |-> FALSE, entry_mode |-> FALSE,
     text_col |-> 0, text_row |-> 0, framebuffer |-> Fill(0, DDRAM_SIZE),
     overflow_checks |-> TRUE]

\* GraphicsMode::flush
flush(m) == write_data(m, m.d.framebuffer)

\* 1 << (y % 8) as u8
PixelMask(y) == 2 ^ (y % 8)

\* a set_pixel that checks the row only
set_pixel_any_column(m, x, y, color) ==
    IF m.st # "ok" THEN m
    ELSE IF y >= 0 /\ y < HEIGHT /\ (y \div 8) * WIDTH + x < DDRAM_SIZE
    THEN SetField(m, "framebuffer",
                  [m.d.framebuffer EXCEPT ![(y \div 8) * WIDTH + x + 1] =
                      IF color = "On" THEN Or8(@, PixelMask(y))
                      ELSE And8(@, 255 - PixelMask(y))])
    ELSE m

\* a set_pixel whose Off clears the whole byte
set_pixel_off_wipes(m, x, y, color) ==
    IF m.st # "ok" THEN m
    ELSE IF x >= 0 /\ x < WIDTH /\ y >= 0 /\ y < HEIGHT
    THEN SetField(m, "framebuffer",
                  [m.d.framebuffer EXCEPT ![(y \div 8) * WIDTH + x + 1] =
                      IF color = "On" THEN Or8(@, PixelMask(y)) ELSE 0])
    ELSE m

\* GraphicsMode::set_pixel; x and y are u32
set_pixel(m, x, y, color) ==
    IF m.st # "ok" THEN m
    ELSE IF x >= 0 /\ x < WIDTH /\ y >= 0 /\ y < HEIGHT
    THEN LET buffer == m.d.framebuffer
         IN SetField(m, "framebuffer",
                     [buffer EXCEPT ![(y \div 8) * WIDTH + x + 1] =
                         IF color = "On" THEN Or8(@, PixelMask(y))
                         ELSE And8(@, 255 - PixelMask(y))])
    ELSE m

\* DrawTarget::draw_iter: the pixels <<x, y, color>>, x and y i32, that lie
\* in the bounding box, which is (0, 0) with size WIDTH x HEIGHT
RECURSIVE draw_iter(_, _)
draw_iter(m, pixels) ==
    IF m.st # "ok" \/ pixels = <<>> THEN m
    ELSE LET px == Head(pixels)
             inside == px[1] >= 0 /\ px[1] < WIDTH /\ px[2] >= 0 /\ px[2] < HEIGHT
         IN draw_iter(IF inside THEN set_pixel(m, px[1], px[2], px[3]) ELSE m,
                      Tail(pixels))

\* a clear that sends the buffer to the chip as soon as it is filled
clear_through(m, color) ==
    flush(SetField(m, "framebuffer", Fill(IF color = "On" THEN 255 ELSE 0, DDRAM_SIZE)))

\* a clear that fills with 0x00 for both colours
clear_dark(m, color) ==
    SetField(m, "framebuffer", Fill(0, DDRAM_SIZE))

\* DrawTarget::clear
clear(m, color) ==
    SetField(m, "framebuffer", Fill(IF color = "On" THEN 255 ELSE 0, DDRAM_SIZE))

\* PCD8544::new with both features: the struct literal, then reset()
new_graphics == reset(Start(GraphicsDrv, [dc |-> 0, ce |-> 1, rst |-> 1], ChipPowerOn, 0))

\* the pixels of column 3 that make byte 0xA5 in bank 1
PatternPixels ==
    << <<3, 8, "On">>, <<3, 10, "On">>, <<3, 13, "On">>, <<3, 15, "On">> >>

\* What the program did before the calls that are explored: it constructed
\* the driver, and then made no call, or clear(On), or draw_iter of the
\* pattern.
GraphicsSetups == { <<>>, <<"clear">>, <<"draw_iter">> }

GraphicsAfter(s) ==
    CASE s = <<>> -> new_graphics
      [] s = <<"clear">> -> clear(Returned(new_graphics), "On")
      [] s = <<"draw_iter">> -> draw_iter(Returned(new_graphics), PatternPixels)

InitGraphics ==
    \E s \in GraphicsSetups, checks \in BOOLEAN :
        /\ drv = [GraphicsAfter(s).d EXCEPT !.overflow_checks = checks]
        /\ pins = GraphicsAfter(s).pins
        /\ chip = GraphicsAfter(s).chip
        /\ log = GraphicsAfter(s).log
        /\ res = GraphicsAfter(s).st
        /\ ret = <<>>
        /\ op = CASE s = <<>> -> [name |-> "new", args |-> <<>>]
                  [] s = <<"clear">> -> [name |-> "clear", args |-> <<"On">>]
                  [] OTHER -> [name |-> "draw_iter", args |-> <<PatternPixels>>]
        /\ pre = IF s = <<>>
                 THEN [d |-> [GraphicsDrv EXCEPT !.overflow_checks = checks], pins |-> PowerOnPins,
                       chip |-> Registers(ChipPowerOn)]
                 ELSE [d |-> [new_graphics.d EXCEPT !.overflow_checks = checks], pins |-> new_graphics.pins,
                       chip |-> Registers(new_graphics.chip)]
        /\ hist = s
        /\ setup = Len(s)
        /\ inj = FALSE

Colors == { "On", "Off" }

\* coordinates inside the display, on its edge, and just past it
PixelArgs ==
    { <<3, 9>>, <<3, 10>>, <<83, 47>>, <<84, 0>>, <<0, 48>>, <<2147483647, 5>> }

\* pixels given to draw_iter, some of them outside the display
DrawArgs ==
    { << <<0, 0, "On">>, <<-1, 5, "On">>, <<84, 47, "On">>, <<83, 47, "On">> >>,
      << <<3, 10, "On">>, <<3, 10, "Off">> >> }

SetPixel ==
    \E a \in PixelArgs, color \in Colors :
        Run("set_pixel", <<a[1], a[2], color>>,
            set_pixel(Begin(0), a[1], a[2], color))

DrawIter ==
    \E pixels \in DrawArgs : Run("draw_iter", <<pixels>>, draw_iter(Begin(0), pixels))

Clear ==
    \E color \in Colors : Run("clear", <<color>>, clear(Begin(0), color))

Flush == Run("flush", <<>>, flush(Begin(0)))

\* the driver with both features: drawing, flush, and the text view
NextGraphics ==
    \/ SetPixel
    \/ DrawIter
    \/ Clear
    \/ Flush
    \/ WriteData
    \/ WriteStr
    \/ SetPosition
    \/ Cls
    \/ CrLf
    \/ IncreasePosition

SpecGraphics == InitGraphics /\ [][NextGraphics]_vars

---------------------------------------------------------------------------
(* The bit-banged transport of bitbang.rs (spi.rs has the same code) *)

\* a write_bit that raises the clock before it sets the data line
bb_write_bit_late(m, high) ==
    PinSet(PinSet(PinSet(m, "clk", 1), "din", B2N(high)), "clk", 0)

\* a call whose error is dropped: `let _ = ...;`
Dropped(m) == IF m.st = "err" THEN [m EXCEPT !.st = "ok", !.err = ""] ELSE m

\* a write_bit that drops the error of the data line
bb_write_bit_lenient(m, high) ==
    PinSet(PinSet(Dropped(PinSet(m, "din", B2N(high))), "clk", 1), "clk", 0)

\* a write_bit for a clock that idles high
bb_write_bit_idle_high(m, high) ==
    PinSet(PinSet(PinSet(m, "din", B2N(high)), "clk", 0), "clk", 1)

\* BitBangSpi::write_bit; delay_us changes nothing that is modelled
bb_write_bit(m, high) ==
    PinSet(PinSet(PinSet(m, "din", B2N(high)), "clk", 1), "clk", 0)

\* SpiWrite::write: the loop `for _ in 0..8` on one word, n passes left
RECURSIVE bb_write_word(_, _, _)
bb_write_word(m, v, n) ==
    IF m.st # "ok" \/ n = 0 THEN m
    ELSE bb_write_word(bb_write_bit(m, And8(v, 128) = 128), (v * 2) % 256, n - 1)

\* SpiWrite::write
RECURSIVE bb_write(_, _)
bb_write(m, words) ==
    IF m.st # "ok" \/ words = <<>> THEN m
    ELSE bb_write(bb_write_word(m, Head(words), 8), Tail(words))

\* BitBangSpi holds the two pins and the delay
BitBangDrv == [delay |-> "NoDelay"]

\* BitBangSpi::new that returned Ok: the clock is low, the data line is at
\* the level it had
InitBitBang ==
    \E level \in {0, 1} :
        /\ drv = BitBangDrv
        /\ pins = [clk |-> 0, din |-> level]
        /\ chip = Registers(ChipPowerOn)
        /\ log = <<PinEvent("clk", 0, TRUE)>>
        /\ res = "ok"
        /\ ret = <<>>
        /\ op = [name |-> "new", args |-> <<>>]
        /\ pre = [d |-> BitBangDrv, pins |-> [clk |-> 0, din |-> level],
                  chip |-> Registers(ChipPowerOn)]
        /\ hist = <<>>
        /\ setup = 0
        /\ inj = TRUE

\* the byte sequences written
WordArgs == { <<>>, <<0>>, <<165>>, <<128, 1>>, <<255, 0, 90>> }

\* a write, also after a write that returned an error: the transport keeps
\* no state but its pins
BbWrite ==
    /\ Len(hist) < MaxCalls
    /\ \E f \in Fails, words \in WordArgs :
           Done("write", <<words>>, bb_write(Begin(f), words))

NextBitBang == BbWrite

SpecBitBang == InitBitBang /\ [][NextBitBang]_vars

---------------------------------------------------------------------------
(* backend.rs: the two backends; the SPI backend is given the bit-banged   *)
(* transport of bitbang.rs as its SPI                                      *)

\* PCD8544GpioBackend::write_bit
gpio_write_bit(m, high) ==
    PinSet(PinSet(PinSet(m, "din", B2N(high)), "clk", 1), "clk", 0)

\* PCD8544GpioBackend::write_byte: the loop `for _ in 0..8`, n passes left
RECURSIVE gpio_write_bits(_, _, _)
gpio_write_bits(m, value, n) ==
    IF m.st # "ok" \/ n = 0 THEN m
    ELSE gpio_write_bits(gpio_write_bit(m, And8(value, 128) = 128),
                         (value * 2) % 256, n - 1)

\* a write_byte that selects the chip before it sets D/C
gpio_write_byte_ce_first(m, data, value) ==
    PinSet(gpio_write_bits(PinSet(PinSet(m, "ce", 0), "dc", B2N(data)), value, 8),
           "ce", 1)

\* PCD8544GpioBackend::write_byte
gpio_write_byte(m, data, value) ==
    PinSet(gpio_write_bits(PinSet(PinSet(m, "dc", B2N(data)), "ce", 0), value, 8),
           "ce", 1)

\* PCD8544SpiBackend::write_byte with SPI = BitBangSpi
spi_write_byte(m, data, value) ==
    PinSet(bb_write(PinSet(PinSet(m, "dc", B2N(data)), "ce", 0), <<value>>),
           "ce", 1)

\* the backend a behaviour is about
BackendDrv(kind) == [backend |-> kind]

\* PCD8544GpioBackend::new and PCD8544SpiBackend::new(BitBangSpi::new(..))
\* that returned Ok: CE is high; the clock is low where BitBangSpi::new
\* drove it low, and at the level it had for the GPIO backend, whose new
\* does not touch it; D/C and the data line are at the level they had
InitBackend ==
    \E kind \in {"gpio", "spi"}, dc \in {0, 1}, clk \in {0, 1}, din \in {0, 1} :
        /\ kind = "spi" => clk = 0
        /\ drv = BackendDrv(kind)
        /\ pins = [dc |-> dc, ce |-> 1, clk |-> clk, din |-> din]
        /\ chip = Registers(ChipPowerOn)
        /\ log = IF kind = "spi"
                 THEN <<PinEvent("clk", 0, TRUE), PinEvent("ce", 1, TRUE)>>
                 ELSE <<PinEvent("ce", 1, TRUE)>>
        /\ res = "ok"
        /\ ret = <<>>
        /\ op = [name |-> "new", args |-> <<>>]
        /\ pre = [d |-> BackendDrv(kind),
                  pins |-> [dc |-> dc, ce |-> 1, clk |-> clk, din |-> din],
                  chip |-> Registers(ChipPowerOn)]
        /\ hist = <<>>
        /\ setup = 0
        /\ inj = TRUE

\* the bytes written
ByteArgs == { 0, 165, 255 }

\* PCD8544Backend::write_byte of the backend of the behaviour
BackendWriteByte ==
    /\ Len(hist) < MaxCalls
    /\ \E f \in Fails, data \in BOOLEAN, value \in ByteArgs :
           Done("write_byte", <<data, value>>,
                IF drv.backend = "gpio"
                THEN gpio_write_byte(Begin(f), data, value)
                ELSE spi_write_byte(Begin(f), data, value))

NextBackend == BackendWriteByte

SpecBackend == InitBackend /\ [][NextBackend]_vars

---------------------------------------------------------------------------
(* The command encoder of instructions.rs, called on its own *)

U8 == 0 .. 255

\* every value of the enum Instruction
Instructions ==
    {NOP}
    \cup { FunctionSet(pd, v, h) : pd \in BOOLEAN, v \in BOOLEAN, h \in BOOLEAN }
    \cup { SetDisplayMode(dm) :
             dm \in {DisplayBlank, Normal, AllSegmentsOn, InverseVideo} }
    \cup { Yaddress(y) : y \in U8 }
    \cup { Xaddress(x) : x \in U8 }
    \cup { SetTempCoefficient(c) : c \in {TC0, TC1, TC2, TC3} }
    \cup { SetBiasMode(mux) : mux \in Bias1To100 .. Bias1To10 }
    \cup { SetVop(c) : c \in U8 }

\* a call of a function of Instruction, the one call of its behaviour: it
\* returned v, or it panicked
Returns(name, i, panics, v) ==
    /\ op.name = "new"
    /\ op' = [name |-> name, args |-> <<i>>]
    /\ res' = IF panics THEN "panic" ELSE "ok"
    /\ ret' = IF panics THEN <<>> ELSE <<v>>
    /\ UNCHANGED <<drv, pins, chip, log, pre, hist, setup, inj>>

\* Instruction::byte
ByteCall == \E i \in Instructions : Returns("byte", i, ~byte_asserts(i), byte(i))

\* Instruction::mode
ModeCall == \E i \in Instructions : Returns("mode", i, FALSE, mode(i))

NextEncoder == ByteCall \/ ModeCall

SpecEncoder == Init /\ [][NextEncoder]_vars

---------------------------------------------------------------------------
(* Properties *)

\* n copies of the sequence s, one after the other
RECURSIVE Times(_, _)
Times(s, n) ==
    IF n = 0 THEN <<>>
    ELSE IF n % 2 = 1 THEN Times(s, n - 1) \o s
    ELSE LET half == Times(s, n \div 2) IN half \o half

\* the events of the entries i .. j of the log l, the passes of a loop
\* written out
RECURSIVE ExpandRange(_, _, _)
ExpandRange(l, i, j) ==
    IF i > j THEN <<>>
    ELSE IF i = j
    THEN (IF l[i].k = "rep" THEN Times(l[i].body, l[i].n) ELSE <<l[i]>>)
    ELSE LET mid == (i + j) \div 2
         IN ExpandRange(l, i, mid) \o ExpandRange(l, mid + 1, j)

\* the events of the log l
Expand(l) == ExpandRange(l, 1, Len(l))

\* the pin and transport calls of the last public call, in order, one entry
\* per call
Events == Expand(log)

IsTransfer(e) == e.k = "spi"

\* the transfers of the last public call, in order
Transfers == SelectSeq(Events, IsTransfer)

\* every call made so far is one of `names`
OnlyCalled(names) == \A i \in 1 .. Len(hist) : hist[i] \in names

\* C1 (as amended): write_command(instruction), for an instruction whose
\* byte() assertion holds, hands the transport at most one transfer, and that
\* transfer is the two command bytes FunctionSet{shadow power-down, shadow
\* entry mode, extended = instruction.mode()}.byte(), instruction.byte();
\* a call that returns Ok made exactly that transfer.  For an instruction
\* whose assertion fails the call panics before it touches a pin.
C1_WriteCommandTwoBytes ==
    op.name = "write_command" =>
        LET i == op.args[1]
            expected ==
                << byte(FunctionSet(pre.d.power_down_control, pre.d.entry_mode,
                                   mode(i))),
                   byte(i) >>
            sent == Transfers
        IN IF byte_asserts(i)
           THEN /\ res # "panic"
                /\ Len(sent) <= 1
                /\ res = "ok" => Len(sent) = 1
                /\ \A k \in 1 .. Len(sent) :
                      sent[k].bytes = expected /\ sent[k].kind = "cmd"
           ELSE res = "panic" /\ log = <<>>

\* C1 witness: a command of the extended set written while the shadow
\* power-down flag is set and the chip is in the basic set
C1_Witness ==
    /\ op.name = "write_command"
    /\ res = "ok"
    /\ mode(op.args[1])
    /\ pre.d.power_down_control
    /\ ~pre.chip.h
    /\ Len(Transfers) = 1

\* C1 as stated: write_command hands over exactly the two bytes for every
\* instruction (calls that return an I/O error left aside)
C1_AsStated ==
    op.name = "write_command" /\ res # "err" =>
        /\ Len(Transfers) = 1
        /\ Transfers[1].bytes =
              << byte(FunctionSet(pre.d.power_down_control, pre.d.entry_mode,
                                 mode(op.args[1]))),
                 byte(op.args[1]) >>

\* C2: every transfer is made with CE low, with D/C low for command bytes
\* and high for data bytes; D/C is set and then CE driven low right before
\* the transfer, and CE is driven high right after a transfer that went
\* through; a call that transferred bytes and returns Ok leaves CE high.
C2_Framing ==
    LET ev == Events
    IN /\ \A i \in 1 .. Len(ev) :
             ev[i].k = "spi" =>
                 /\ ev[i].ce = 0
                 /\ ev[i].dc = (IF ev[i].kind = "data" THEN 1 ELSE 0)
                 /\ i > 2
                 /\ ev[i - 1] = PinEvent("ce", 0, TRUE)
                 /\ ev[i - 2] = PinEvent("dc", ev[i].dc, TRUE)
                 /\ ev[i].ok =>
                       /\ i < Len(ev)
                       /\ ev[i + 1].k = "pin"
                       /\ ev[i + 1].pin = "ce"
                       /\ ev[i + 1].lvl = 1
       /\ res = "ok" /\ Transfers # <<>> => pins.ce = 1

\* C2 witness: a call that returned Ok after it transferred data bytes and
\* command bytes
C2_Witness ==
    /\ res = "ok"
    /\ op.name # "new"
    /\ \E i \in 1 .. Len(Transfers) : Transfers[i].kind = "data"
    /\ \E i \in 1 .. Len(Transfers) : Transfers[i].kind = "cmd"

\* C3: one write_data call of lib.rs, made with the shadow cursor at
\* (x0, y0) inside the display, leaves it at
\* ((x0 + 1) mod 84, (y0 + (x0 + 1) div 84) mod 6).
C3_WriteDataAdvancesCursor ==
    op.name = "write_data" /\ pre.d.x < WIDTH /\ pre.d.y < ROWS =>
        /\ drv.x = (pre.d.x + 1) % WIDTH
        /\ drv.y = (pre.d.y + (pre.d.x + 1) \div WIDTH) % ROWS

\* the calls of lib.rs that C4 lists
C4Calls ==
    { "reset", "init", "clear", "set_x_position", "set_y_position",
      "write_data", "write_str", "set_display_mode", "set_contrast",
      "set_bias_mode" }

\* C4: once the chip is out of reset, after any sequence of the calls of
\* C4Calls the shadow cursor (x, y) of lib.rs is the address pointer of the
\* chip.
C4_ShadowCursorIsChipPointer ==
    pins.rst = 1 /\ OnlyCalled(C4Calls) => drv.x = chip.x /\ drv.y = chip.y

\* C5: the shadow cursor of lib.rs stays inside the display: x < 84, y < 6.
C5_ShadowCursorInRange == drv.x \in 0 .. WIDTH - 1 /\ drv.y \in 0 .. ROWS - 1

\* C6: clear() of lib.rs transfers 504 data bytes 0x00, then the commands X
\* address 0 and Y address 0, and leaves the shadow cursor and the address
\* pointer of the chip at (0, 0).
C6_ClearHomesCursor ==
    op.name = "clear" /\ res = "ok" =>
        LET sent == Transfers
        IN /\ Len(sent) = DDRAM_SIZE + 2
           /\ \A i \in 1 .. DDRAM_SIZE :
                 sent[i].bytes = <<0>> /\ sent[i].kind = "data"
           /\ sent[DDRAM_SIZE + 1].bytes = <<128>>
           /\ sent[DDRAM_SIZE + 1].kind = "cmd"
           /\ sent[DDRAM_SIZE + 2].bytes = <<64>>
           /\ sent[DDRAM_SIZE + 2].kind = "cmd"
           /\ drv.x = 0 /\ drv.y = 0
           /\ chip.x = 0 /\ chip.y = 0

\* C7: a reset() of display.rs that returns Ok pulses RST low then high,
\* then sends, as one command transfer, FunctionSet{extended} 0x21,
\* SetVop(65) 0xC1, SetTempCoefficient(TC2) 0x06, SetBiasMode(1:48) 0x13,
\* FunctionSet{basic} 0x20, SetDisplayMode(Normal) 0x0C, and only then
\* clears: 504 data bytes 0x00, then X address 0 and Y address 0.
C7_ResetSequence ==
    op.name \in {"reset", "new"} /\ res = "ok" =>
        LET ev == Events
            sent == Transfers
        IN /\ Len(ev) > 6
           /\ SubSeq(ev, 1, 6) =
                 << PinEvent("rst", 0, TRUE),
                    PinEvent("rst", 1, TRUE),
                    PinEvent("dc", 0, TRUE),
                    PinEvent("ce", 0, TRUE),
                    SpiEvent(<<33, 193, 6, 19, 32, 12>>, "cmd",
                             [dc |-> 0, ce |-> 0], TRUE),
                    PinEvent("ce", 1, TRUE) >>
           /\ \A i \in 1 .. Len(ev) : ev[i].pin = "rst" => i <= 2
           /\ Len(sent) = DDRAM_SIZE + 3
           /\ \A i \in 2 .. DDRAM_SIZE + 1 :
                 sent[i].bytes = <<0>> /\ sent[i].kind = "data"
           /\ sent[DDRAM_SIZE + 2].bytes = <<32, 128>>
           /\ sent[DDRAM_SIZE + 2].kind = "cmd"
           /\ sent[DDRAM_SIZE + 3].bytes = <<32, 64>>
           /\ sent[DDRAM_SIZE + 3].kind = "cmd"

\* C7 witness: reset() called on a driver that an earlier call had put into
\* power-down, and that returned Ok
C7_Witness ==
    /\ op.name = "reset"
    /\ res = "ok"
    /\ pre.d.power_down_control
    /\ pre.chip.pd
    /\ ~chip.pd

\* C8: a reset() of display.rs that returns Ok clears both shadow flags and
\* zeroes the text cursor.
C8_ResetZeroesShadowState ==
    op.name = "reset" /\ res = "ok" =>
        /\ ~drv.power_down_control
        /\ ~drv.entry_mode
        /\ drv.text_col = 0
        /\ drv.text_row = 0

\* the calls of the text view and of the controller that C9 lists
C9Calls ==
    { "set_position", "set_col", "set_row", "write_str", "cls", "reset",
      "hw_cls" }

\* C9: after any sequence of the calls of C9Calls that all returned Ok, the
\* address pointer of the chip is (text_col * 6, text_row).
C9_TextCursorIsChipPointer ==
    res = "ok" /\ OnlyCalled(C9Calls) =>
        chip.x = drv.text_col * 6 /\ chip.y = drv.text_row

\* the calls of display.rs that C10 lists
C10Calls ==
    { "reset", "set_power_down", "set_contrast", "set_display_mode",
      "set_bias_mode", "set_temperature_coefficient", "write_command",
      "write_data", "hw_cls" }

\* C10: after any sequence of the calls of C10Calls that all returned Ok,
\* the PD and V bits of the chip are the shadow flags power_down_control
\* and entry_mode.
C10_ShadowFlagsAreChipBits ==
    res = "ok" /\ OnlyCalled(C10Calls) =>
        chip.pd = drv.power_down_control /\ chip.v = drv.entry_mode

\* the calls of display.rs and its text view that C11 lists
C11Calls ==
    { "reset", "set_contrast", "set_bias_mode", "set_temperature_coefficient",
      "set_display_mode", "set_power_down", "set_col", "set_row", "cls",
      "hw_cls" }

IsResetOrCommand(e) ==
    \/ e.k = "pin" /\ e.pin = "rst"
    \/ e.k = "spi" /\ e.kind = "cmd"

\* the bytes of one transfer as they arrive at the chip c: each with the H
\* bit the chip holds when the byte arrives, and whether the chip takes it
\* as a command
RECURSIVE ArrivalsOf(_, _, _)
ArrivalsOf(bs, c, p) ==
    IF bs = <<>> THEN <<>>
    ELSE <<[b |-> Head(bs), h |-> c.h,
            heard |-> p.ce = 0 /\ p.rst = 1 /\ p.dc = 0]>>
         \o ArrivalsOf(Tail(bs), ChipByte(c, p, Head(bs)), p)

\* the command bytes of the events es as they arrive at the chip c
RECURSIVE Arrivals(_, _, _)
Arrivals(es, c, rst) ==
    IF es = <<>> THEN <<>>
    ELSE LET e == Head(es)
             p == [dc |-> e.dc, ce |-> e.ce, rst |-> rst]
         IN IF ~e.ok THEN Arrivals(Tail(es), c, rst)
            ELSE IF e.k = "pin"
            THEN Arrivals(Tail(es), ChipPin(c, "rst", e.lvl), e.lvl)
            ELSE ArrivalsOf(e.bytes, c, p)
                 \o Arrivals(Tail(es), ChipBytes(c, p, e.bytes), rst)

\* write_command(i) as a pair of instructions, with the shadow flags d
Prefixed(d, i) ==
    <<FunctionSet(d.power_down_control, d.entry_mode, mode(i)), i>>

\* the instructions the last call encodes, in the order it sends them
Issued ==
    LET a == IF op.args = <<>> THEN 0 ELSE op.args[1]
        cleared == [power_down_control |-> FALSE, entry_mode |-> FALSE]
    IN CASE op.name \in {"new", "reset"} ->
              << FunctionSet(FALSE, FALSE, TRUE), SetVop(65),
                 SetTempCoefficient(TC2), SetBiasMode(Bias1To48),
                 FunctionSet(FALSE, FALSE, FALSE), SetDisplayMode(Normal) >>
              \o Prefixed(cleared, Xaddress(0)) \o Prefixed(cleared, Yaddress(0))
         [] op.name \in {"hw_cls", "cls"} ->
              Prefixed(pre.d, Xaddress(0)) \o Prefixed(pre.d, Yaddress(0))
         [] op.name = "set_contrast" -> Prefixed(pre.d, SetVop(a))
         [] op.name = "set_bias_mode" -> Prefixed(pre.d, SetBiasMode(a))
         [] op.name = "set_temperature_coefficient" ->
              Prefixed(pre.d, SetTempCoefficient(a))
         [] op.name = "set_display_mode" -> Prefixed(pre.d, SetDisplayMode(a))
         [] op.name = "set_power_down" ->
              <<FunctionSet(a, pre.d.entry_mode, FALSE)>>
         [] op.name = "set_col" ->
              IF a < COLUMNS THEN Prefixed(pre.d, Xaddress(a * 6)) ELSE <<>>
         [] op.name = "set_row" ->
              IF a < ROWS THEN Prefixed(pre.d, Yaddress(a)) ELSE <<>>
         [] OTHER -> <<>>

\* C11: in every call of C11Calls (and in new), whatever calls came before,
\* the command bytes the chip receives are the bytes of the instructions the
\* call encodes, and every instruction other than NOP and FunctionSet
\* arrives while the chip's H bit equals the instruction's mode().
C11_InstructionsArriveInTheirSet ==
    op.name \in C11Calls \cup {"new"} /\ res = "ok" =>
        LET seen == Arrivals(SelectSeq(Events, IsResetOrCommand), pre.chip,
                             pre.pins.rst)
            sent == Issued
        IN /\ Len(seen) = Len(sent)
           /\ \A i \in 1 .. Len(sent) :
                 /\ seen[i].b = byte(sent[i])
                 /\ seen[i].heard
                 /\ sent[i].op \notin {"NOP", "FunctionSet"} =>
                       seen[i].h = mode(sent[i])

\* C11 witness: after calls of C11Calls alone, an instruction of the basic
\* set is sent to a chip that the call before left in the extended set
C11_Witness ==
    /\ op.name = "set_display_mode"
    /\ res = "ok"
    /\ OnlyCalled(C11Calls)
    /\ pre.chip.h
    /\ ~chip.h
    /\ chip.dm = op.args[1]

\* the flag of the lib.rs struct that each of the three setters stores
FlagOf(name) ==
    CASE name = "set_power_down" -> "power_down_control"
      [] name = "set_entry_mode" -> "entry_mode"
      [] name = "enable_extended_commands" -> "extended_instruction_set"

\* C12: in lib.rs, set_power_down(b), set_entry_mode(b) and
\* enable_extended_commands(b) store b in their flag, leave the other two
\* flags as they were, and make exactly one transfer, the command byte
\* 0x20 | power_down << 2 | entry_mode << 1 | extended of the three flags
\* as they are after the update.
C12_FlagSettersSendFunctionSet ==
    op.name \in {"set_power_down", "set_entry_mode", "enable_extended_commands"}
    /\ "extended_instruction_set" \in DOMAIN drv =>
        LET sent == Transfers
        IN /\ drv = [pre.d EXCEPT ![FlagOf(op.name)] = op.args[1]]
           /\ Len(sent) = 1
           /\ sent[1].kind = "cmd"
           /\ sent[1].dc = 0
           /\ sent[1].bytes =
                 << 32 + 4 * (IF drv.power_down_control THEN 1 ELSE 0)
                       + 2 * (IF drv.entry_mode THEN 1 ELSE 0)
                       + (IF drv.extended_instruction_set THEN 1 ELSE 0) >>

\* C12 witness: set_entry_mode(true) on a driver whose power-down flag is
\* set sends 0x26
C12_Witness ==
    /\ op.name = "set_entry_mode"
    /\ "extended_instruction_set" \in DOMAIN drv
    /\ pre.d.power_down_control
    /\ ~pre.d.entry_mode
    /\ drv.entry_mode
    /\ Len(Transfers) = 1
    /\ Transfers[1].bytes = <<38>>

\* C13: Instruction::byte() returns the documented wire code of every
\* instruction of its valid domain (banks 0..5, columns 0..83): NOP 0x00,
\* FunctionSet 0x20 | pd << 2 | v << 1 | h, SetDisplayMode 0x08 | code with
\* the codes 0, 4, 1, 5, Yaddress 0x40 | bank, Xaddress 0x80 | column,
\* SetTempCoefficient 0x04 | tc, SetBiasMode 0x10 | mux, SetVop
\* 0x80 | (v & 0x7f).
C13_ByteIsWireCode ==
    op.name = "byte" =>
        LET i == op.args[1]
        IN CASE i.op = "NOP" -> ret = <<0>>
             [] i.op = "FunctionSet" ->
                  ret = << 32 + 4 * (IF i.pd THEN 1 ELSE 0)
                              + 2 * (IF i.v THEN 1 ELSE 0)
                              + (IF i.h THEN 1 ELSE 0) >>
             [] i.op = "SetDisplayMode" ->
                  /\ i.arg \in {0, 4, 1, 5}
                  /\ ret = <<8 + i.arg>>
             [] i.op = "Yaddress" -> i.arg <= 5 => ret = <<64 + i.arg>>
             [] i.op = "Xaddress" -> i.arg <= 83 => ret = <<128 + i.arg>>
             [] i.op = "SetTempCoefficient" -> ret = <<4 + i.arg>>
             [] i.op = "SetBiasMode" -> ret = <<16 + i.arg>>
             [] i.op = "SetVop" -> ret = <<128 + (i.arg % 128)>>

\* C13 witness: byte() of FunctionSet{pd: true, v: false, h: true} returned
\* 0x25
C13_Witness ==
    /\ op.name = "byte"
    /\ op.args[1] = FunctionSet(TRUE, FALSE, TRUE)
    /\ ret = <<37>>

\* C14: for every v in 0..255, SetVop(v).byte() is SetVop(v & 0x7F).byte(),
\* and it is a byte: 0x80 | (v & 0x7F), no bit outside the low eight.
C14_VopIsMasked ==
    op.name = "byte" /\ op.args[1].op = "SetVop" =>
        /\ res = "ok"
        /\ ret = <<byte(SetVop(And8(op.args[1].arg, 127)))>>
        /\ ret[1] \in 128 .. 255
        /\ ret[1] - 128 = op.args[1].arg % 128

\* C14 witness: SetVop(200).byte() returned 0xC8, the byte of SetVop(72)
C14_Witness ==
    /\ op.name = "byte"
    /\ op.args[1] = SetVop(200)
    /\ ret = <<200>>
    /\ ret = <<byte(SetVop(72))>>

\* C15: set_contrast(c) of display.rs with c >= 128 transmits the contrast
\* command byte that set_contrast(127) transmits, 0xFF.
C15_ContrastIsCapped ==
    op.name = "set_contrast" /\ res = "ok" /\ "text_col" \in DOMAIN drv
    /\ op.args[1] >= 128 =>
        /\ Len(Transfers) = 1
        /\ Transfers[1].bytes[2] = byte(SetVop(127))

\* C16: byte() encodes Yaddress(b) exactly when b is a bank, 0..5, and
\* Xaddress(c) exactly when c is a column, 0..83; for every other argument it
\* panics and returns no byte.
C16_AddressesInsideDdram ==
    op.name = "byte" /\ op.args[1].op \in {"Yaddress", "Xaddress"} =>
        LET inside == IF op.args[1].op = "Yaddress"
                      THEN op.args[1].arg \in 0 .. ROWS - 1
                      ELSE op.args[1].arg \in 0 .. WIDTH - 1
        IN IF inside THEN res = "ok" /\ Len(ret) = 1
           ELSE res = "panic" /\ ret = <<>>

\* the level of `pin` just before event i of the events E of the last call:
\* the level of the last successful operation on it, or the level it had
\* when the call began
RECURSIVE LevelBefore(_, _, _)
LevelBefore(E, pin, i) ==
    IF i = 1 THEN pre.pins[pin]
    ELSE IF E[i - 1].k = "pin" /\ E[i - 1].pin = pin /\ E[i - 1].ok
         THEN E[i - 1].lvl
         ELSE LevelBefore(E, pin, i - 1)

\* event i of E takes the clock from low to high
IsRisingEdge(E, i) ==
    /\ E[i].k = "pin" /\ E[i].pin = "clk" /\ E[i].ok /\ E[i].lvl = 1
    /\ LevelBefore(E, "clk", i) = 0

\* the events from the i-th on that are rising edges of the clock, by index
RECURSIVE RisingEdges(_, _)
RisingEdges(E, i) ==
    IF i > Len(E) THEN <<>>
    ELSE (IF IsRisingEdge(E, i) THEN <<i>> ELSE <<>>) \o RisingEdges(E, i + 1)

\* what the events of the last write(words) show: eight rising clock edges
\* per byte, the data line at the k-th of them at bit 7 - (k-1) mod 8 of
\* byte (k-1) div 8, and no change of the data line while the clock is high
EdgesCarryBits ==
    LET E == Events
        words == op.args[1]
        R == RisingEdges(E, 1)
    IN /\ Len(R) = 8 * Len(words)
       /\ \A k \in 1 .. Len(R) :
              LevelBefore(E, "din", R[k])
                  = Bit(words[((k - 1) \div 8) + 1], 7 - ((k - 1) % 8))
       /\ \A i \in 1 .. Len(E) :
              E[i].pin = "din" /\ E[i].ok
              /\ E[i].lvl # LevelBefore(E, "din", i)
                  => LevelBefore(E, "clk", i) = 0

\* C17 (as amended): a BitBangSpi::write(words) that begins with the clock
\* line low, as new() and every write of at least one byte that returned Ok
\* leave it, and during
\* which no pin operation fails makes exactly eight rising clock edges per
\* byte, the level of the data line at the successive rising edges is the
\* bits of the bytes in order, most significant bit first, and the data
\* line changes level only while the clock is low.
C17_EightEdgesMsbFirst ==
    op.name = "write" /\ res = "ok" /\ pre.pins.clk = 0 => EdgesCarryBits

\* three bytes went out in 24 rising edges
C17_Witness ==
    /\ op.name = "write" /\ res = "ok" /\ op.args[1] = <<255, 0, 90>>
    /\ pre.pins.clk = 0 /\ pre.pins.din = 0
    /\ Len(RisingEdges(Events, 1)) = 24

\* C17 as stated: the same for every write during which no pin operation
\* fails, whatever level the clock line has when it begins.
C17_AsStated ==
    op.name = "write" /\ res = "ok" => EdgesCarryBits

\* C18: BitBangSpi::write returns an error exactly when one of its pin
\* operations failed; the failed operation is the last one it made, no
\* other one failed, and the error returned is the error of that pin.
C18_WriteFailsWithFirstPinError ==
    op.name = "write" =>
        LET E == Events
        IN /\ res \in {"ok", "err"}
           /\ (res = "err") <=> (\E i \in 1 .. Len(E) : ~E[i].ok)
           /\ res = "ok" => ret = <<>>
           /\ res = "err" =>
                  /\ \A i \in 1 .. Len(E) : ~E[i].ok => i = Len(E)
                  /\ ret = <<E[Len(E)].pin>>

\* the data line failed for the second bit
C18_Witness ==
    /\ op.name = "write" /\ res = "err" /\ ret = <<"din">>
    /\ Len(Events) = 4 /\ ~Events[4].ok /\ Events[4].pin = "din"

IsDataSent(e) == e.k = "spi" /\ e.kind = "data" /\ e.ok

\* the bytes of the transfers T, one after the other
RECURSIVE Flat(_)
Flat(T) == IF T = <<>> THEN <<>> ELSE Head(T).bytes \o Flat(Tail(T))

\* the text cursor n cells after (c, r)
CellsOn(c, r, n) == <<(c + n) % 14, (r + ((c + n) \div 14)) % 6>>

IsPrintable(s) == \A i \in 1 .. Len(s) : s[i] \notin {10, 13}

\* C19: write_str of the text view, on a string without '\r' and '\n',
\* transmits for each character its five glyph bytes as one data transfer
\* (five 0xFF for U+00B5, which is not in the font) and then 0x00 as a
\* second one, and nothing else; the text cursor has moved by one cell for
\* each character whose six bytes went out and for no other, also when the
\* call stops with an error; "HI" sends 7f 08 08 08 7f 00 00 41 7f 41 00 00.
C19_SixBytesThenAdvance ==
    op.name = "write_str" /\ IsPrintable(op.args[1]) =>
        LET s == op.args[1]
            T == Transfers
            D == SelectSeq(T, IsDataSent)
        IN /\ res \in {"ok", "err"}
           /\ \A i \in 1 .. Len(T) : T[i].kind = "data"
           /\ \A i \in 1 .. Len(T) : ~T[i].ok => i = Len(T)
           /\ Len(D) <= 2 * Len(s)
           /\ res = "ok" => Len(D) = 2 * Len(s)
           /\ \A k \in 1 .. Len(D) :
                  D[k].bytes = IF k % 2 = 1 THEN char_to_bytes(s[(k + 1) \div 2])
                               ELSE <<0>>
           /\ <<drv.text_col, drv.text_row>>
                  = CellsOn(pre.d.text_col, pre.d.text_row, Len(D) \div 2)
           /\ s = <<72, 73>> /\ res = "ok" =>
                  Flat(D) = <<127, 8, 8, 8, 127, 0, 0, 65, 127, 65, 0, 0>>
           /\ s = <<181>> /\ res = "ok" =>
                  Flat(D) = <<255, 255, 255, 255, 255, 0>>

\* "HI" went out whole, and the cursor is two cells on
C19_Witness ==
    /\ op.name = "write_str" /\ op.args[1] = <<72, 73>> /\ res = "ok"
    /\ Len(SelectSeq(Transfers, IsDataSent)) = 4
    /\ <<drv.text_col, drv.text_row>> = <<2, 0>>

\* C20: write_str of n characters other than '\r' and '\n', begun with the
\* text cursor at (c, r), c in 0 .. 13 and r in 0 .. 5, and with no pin or
\* transport failure, returns Ok and leaves the text cursor at
\* ((c + n) mod 14, (r + (c + n) div 14) mod 6).
C20_CursorWrapsAsARing ==
    /\ op.name = "write_str" /\ IsPrintable(op.args[1])
    /\ pre.d.text_col \in 0 .. COLUMNS - 1 /\ pre.d.text_row \in 0 .. ROWS - 1
    => /\ res = "ok"
       /\ drv.text_col = (pre.d.text_col + Len(op.args[1])) % COLUMNS
       /\ drv.text_row
              = (pre.d.text_row
                    + ((pre.d.text_col + Len(op.args[1])) \div COLUMNS)) % ROWS

\* fifteen characters from the last cell of the display: two wraps of the
\* column, and the row passes from 5 over 0 to 1
C20_Witness ==
    /\ op.name = "write_str" /\ Len(op.args[1]) = 15 /\ res = "ok"
    /\ pre.d.text_col = 13 /\ pre.d.text_row = 5
    /\ drv.text_col = 0 /\ drv.text_row = 1

\* the last call made one transfer, the command bytes FunctionSet with the
\* basic instruction set and then `code`
SentCommand(code) ==
    LET T == Transfers
    IN /\ Len(T) = 1
       /\ T[1].kind = "cmd" /\ T[1].ok
       /\ Len(T[1].bytes) = 2
       /\ T[1].bytes[1] \in {32, 34, 36, 38}
       /\ T[1].bytes[2] = code

\* the last call made no pin or transport call and left pins and struct alone
DidNothing == log = <<>> /\ pins = pre.pins /\ drv = pre.d

\* C21: in the text view set_col(c) with c >= 14 and set_row(r) with r >= 6
\* return Ok, transmit nothing, change no pin and leave text_col and
\* text_row as they were; with c < 14 (r < 6) and no failure they store the
\* value, leave the other coordinate alone and send the command
\* Xaddress(c * 6), wire code 0x80 | c * 6 (Yaddress(r), 0x40 | r).
C21_OutOfRangeIsIgnored ==
    /\ op.name = "set_col" =>
          /\ res = "ok"
          /\ IF op.args[1] >= 14 THEN DidNothing
             ELSE /\ drv = [pre.d EXCEPT !.text_col = op.args[1]]
                  /\ SentCommand(128 + op.args[1] * 6)
    /\ op.name = "set_row" =>
          /\ res = "ok"
          /\ IF op.args[1] >= 6 THEN DidNothing
             ELSE /\ drv = [pre.d EXCEPT !.text_row = op.args[1]]
                  /\ SentCommand(64 + op.args[1])

\* set_col(14) was ignored with the text cursor in column 3
C21_Witness ==
    /\ op.name = "set_col" /\ op.args[1] = 14 /\ res = "ok"
    /\ pre.d.text_col = 3 /\ drv.text_col = 3 /\ log = <<>>

\* C22: write_str("\n") of the text view, begun with the text cursor at
\* (c, r), c in 0 .. 13 and r in 0 .. 5, and with no failure, transmits
\* (14 - c) * 6 data bytes, all 0x00, and no other byte, and leaves the text
\* cursor at (0, (r + 1) mod 6).
C22_NewlinePadsTheRow ==
    /\ op.name = "write_str" /\ op.args[1] = <<10>>
    /\ pre.d.text_col \in 0 .. 13 /\ pre.d.text_row \in 0 .. 5
    => LET T == Transfers
           bytes == Flat(T)
       IN /\ res = "ok"
          /\ \A i \in 1 .. Len(T) : T[i].kind = "data" /\ T[i].ok
          /\ Len(bytes) = (14 - pre.d.text_col) * 6
          /\ \A i \in 1 .. Len(bytes) : bytes[i] = 0
          /\ drv.text_col = 0
          /\ drv.text_row = (pre.d.text_row + 1) % 6

\* a newline in the last cell of the display: 6 zero bytes, and the cursor
\* is back at the top
C22_Witness ==
    /\ op.name = "write_str" /\ op.args[1] = <<10>> /\ res = "ok"
    /\ pre.d.text_col = 13 /\ pre.d.text_row = 5
    /\ Len(Flat(Transfers)) = 6
    /\ drv.text_col = 0 /\ drv.text_row = 0

\* C23: after a cls() that returned Ok, whatever the text cursor and the
\* address pointer of the chip were before, the text cursor is (0, 0), the
\* address pointer of the chip is (0, 0), and each of the 504 bytes of the
\* DDRAM of a chip in horizontal addressing is 0x00.
C23_ClsClearsAndHomes ==
    op.name = "cls" /\ res = "ok" /\ ~chip.v =>
        /\ drv.text_col = 0 /\ drv.text_row = 0
        /\ chip.x = 0 /\ chip.y = 0
        /\ Len(chip.ddram) = 504
        /\ \A i \in 1 .. 504 : chip.ddram[i] = 0

\* cls() cleared a display that held data, with the text cursor and the
\* address pointer away from the origin
C23_Witness ==
    /\ op.name = "cls" /\ res = "ok" /\ ~chip.v
    /\ pre.d.text_col # 0 /\ pre.chip.x # 0
    /\ hist = <<"write_str", "cls">>
    /\ \A i \in 1 .. 504 : chip.ddram[i] = 0

\* C24: set_pixel(x, y, color) performs no pin or transport call and does
\* not fail; with x < 84 and y < 48 it makes bit y mod 8 of framebuffer
\* byte (y div 8) * 84 + x one (On) or zero (Off) and leaves every other
\* bit of that byte and every other byte as it was; with x >= 84 or
\* y >= 48 it leaves the whole framebuffer as it was.
C24_SetPixelChangesOneBit ==
    op.name = "set_pixel" =>
        LET x == op.args[1]
            y == op.args[2]
            old == pre.d.framebuffer
            now == drv.framebuffer
        IN /\ res = "ok" /\ log = <<>> /\ pins = pre.pins
           /\ drv = [pre.d EXCEPT !.framebuffer = now]
           /\ Len(now) = 504
           /\ IF x < 84 /\ y < 48
              THEN /\ \A j \in 1 .. 504 :
                         j # (y \div 8) * 84 + x + 1 => now[j] = old[j]
                   /\ \A b \in 0 .. 7 :
                         Bit(now[(y \div 8) * 84 + x + 1], b)
                             = IF b = y % 8
                               THEN (IF op.args[3] = "On" THEN 1 ELSE 0)
                               ELSE Bit(old[(y \div 8) * 84 + x + 1], b)
              ELSE now = old

\* set_pixel(3, 9, On) made 0xA7 of the byte 0xA5 of column 3 in bank 1
C24_Witness ==
    /\ op.name = "set_pixel" /\ op.args = <<3, 9, "On">> /\ res = "ok"
    /\ pre.d.framebuffer[88] = 165 /\ drv.framebuffer[88] = 167

\* C25: a flush() that returns Ok first sends the commands X address 0
\* (0x80) and Y address 0 (0x40), each after a FunctionSet byte, and then
\* exactly 504 data bytes, the i-th of which is framebuffer byte i, bank
\* after bank.
C25_FlushHomesThenStreams ==
    op.name = "flush" /\ res = "ok" =>
        LET T == Transfers
        IN /\ Len(T) >= 3
           /\ T[1].kind = "cmd" /\ T[1].bytes[Len(T[1].bytes)] = 128
           /\ T[2].kind = "cmd" /\ T[2].bytes[Len(T[2].bytes)] = 64
           /\ \A i \in 3 .. Len(T) : T[i].kind = "data"
           /\ Flat(SubSeq(T, 3, Len(T))) = pre.d.framebuffer
           /\ Len(pre.d.framebuffer) = 504

\* C26: after a flush() that returned Ok, whatever calls of the text view,
\* cursor, clear and drawing operations came before it, the DDRAM of a
\* chip in horizontal addressing mirrors the framebuffer: for every column
\* x in 0 .. 83 and bank b in 0 .. 5 the byte of the chip at (x, b) is
\* framebuffer byte b * 84 + x.
C26_FlushMirrorsFramebuffer ==
    op.name = "flush" /\ res = "ok" /\ ~chip.v =>
        \A x \in 0 .. 83, b \in 0 .. 5 :
            chip.ddram[b * 84 + x + 1] = drv.framebuffer[b * 84 + x + 1]

\* the step is set_pixel(x, y, Off) with x < 84 and y < 48, made right
\* after set_pixel(x, y, On)
SetThenClear ==
    /\ op.name = "set_pixel" /\ op.args[3] = "On"
    /\ op.args[1] < 84 /\ op.args[2] < 48
    /\ op'.name = "set_pixel" /\ op'.args = <<op.args[1], op.args[2], "Off">>
    /\ hist' = Append(hist, "set_pixel")

\* the framebuffer index of the byte the pixel of the last call is in
PixelByte == (op.args[2] \div 8) * 84 + op.args[1] + 1

\* C27 (as amended): set_pixel(x, y, On) followed by set_pixel(x, y, Off)
\* at the same coordinate inside the display gives the byte of the pixel
\* the value it had before the two calls when bit y mod 8 of it was 0
\* then; when the bit was 1, the byte ends as that value with the bit
\* cleared.  No other byte changes.
C27_SetThenClearRestores ==
    [][SetThenClear =>
          LET before == pre.d.framebuffer[PixelByte]
          IN /\ Bit(before, op.args[2] % 8) = 0 =>
                    drv'.framebuffer[PixelByte] = before
             /\ Bit(before, op.args[2] % 8) = 1 =>
                    drv'.framebuffer[PixelByte] = before - 2 ^ (op.args[2] % 8)
             /\ \A j \in 1 .. 504 :
                    j # PixelByte => drv'.framebuffer[j] = pre.d.framebuffer[j]]_vars

\* set_pixel(3, 9, On) and then set_pixel(3, 9, Off) on the byte 0xA5: it
\* was 0xA7 in between and is 0xA5 again
C27_Witness ==
    /\ hist = <<"draw_iter", "set_pixel", "set_pixel">>
    /\ op.name = "set_pixel" /\ op.args = <<3, 9, "Off">>
    /\ pre.d.framebuffer[88] = 167 /\ drv.framebuffer[88] = 165

\* C27 as stated: the two calls restore the byte for every value it had
\* before them.
C27_AsStated ==
    [][SetThenClear =>
          drv'.framebuffer[PixelByte] = pre.d.framebuffer[PixelByte]]_vars

\* C28: clear(color) makes each of the 504 framebuffer bytes 0xFF for On
\* and 0x00 for Off, whatever the framebuffer held, returns Ok, makes no
\* pin or transport call and changes nothing else.
C28_ClearFillsFramebuffer ==
    op.name = "clear" =>
        /\ res = "ok" /\ log = <<>> /\ pins = pre.pins
        /\ chip = [pre.chip EXCEPT !.ddram = chip.ddram]
        /\ Len(drv.framebuffer) = 504
        /\ \A i \in 1 .. 504 :
              drv.framebuffer[i] = IF op.args[1] = "On" THEN 255 ELSE 0
        /\ drv = [pre.d EXCEPT !.framebuffer = drv.framebuffer]

\* clear(On) filled a framebuffer that held the pattern
C28_Witness ==
    /\ op.name = "clear" /\ op.args = <<"On">> /\ res = "ok" /\ log = <<>>
    /\ pre.d.framebuffer[88] = 165 /\ pre.d.framebuffer[1] = 0
    /\ drv.framebuffer[1] = 255 /\ drv.framebuffer[504] = 255

\* C29: in the display.rs driver with the text view, a write_data(data)
\* that returns Ok has transmitted the bytes as one data transfer and has
\* moved the text cursor on by the cells the bytes fill, one cell for
\* each six bytes.
C29_WriteDataMovesTextCursor ==
    op.name = "write_data" /\ res = "ok" =>
        /\ Len(Transfers) = 1
        /\ Transfers[1].kind = "data" /\ Transfers[1].bytes = op.args[1]
        /\ <<drv.text_col, drv.text_row>>
              = CellsOn(pre.d.text_col, pre.d.text_row, Len(op.args[1]) \div 6)

\* the events of E before its first transfer
RECURSIVE BeforeFirstTransfer(_, _)
BeforeFirstTransfer(E, i) ==
    IF i > Len(E) \/ E[i].k = "spi" THEN SubSeq(E, 1, i - 1)
    ELSE BeforeFirstTransfer(E, i + 1)

\* C30: PCD8544::new drives CE high and RST low before it transmits any
\* byte and yields power_down = false, addressing mode = false and the
\* cursor (0, 0); RST stays low as long as reset() has not been called.
C30_ConstructionHoldsReset ==
    /\ op.name = "new" =>
          LET B == BeforeFirstTransfer(Events, 1)
          IN /\ \E i \in 1 .. Len(B) : B[i] = PinEvent("ce", 1, TRUE)
             /\ \E i \in 1 .. Len(B) : B[i] = PinEvent("rst", 0, TRUE)
             /\ ~drv.power_down_control /\ ~drv.entry_mode
             /\ drv.text_col = 0 /\ drv.text_row = 0
    /\ (\A i \in 1 .. Len(hist) : hist[i] # "reset") => pins.rst = 0

\* C31: in every operation of the controller and of its text view, when a
\* pin or transport call fails the operation returns an error at once: the
\* failed call is the last pin or transport call of the operation and the
\* only one that failed, so that it is not made again and nothing is
\* called after it; and an operation returns an error only when a call
\* failed.
C31_ErrorsReturnAtOnce ==
    LET E == Events
    IN /\ (res = "err") <=> (\E i \in 1 .. Len(E) : ~E[i].ok)
       /\ \A i \in 1 .. Len(E) : ~E[i].ok => i = Len(E)
       /\ res = "err" =>
              ret = <<IF op.name = "write_str" THEN "fmt::Error"
                      ELSE IF E[Len(E)].k = "spi" THEN "spi" ELSE E[Len(E)].pin>>

\* reset() stopped at the transfer of the init sequence: RST was pulsed,
\* D/C and CE driven low, the transport failed, and nothing came after
C31_Witness ==
    /\ op.name = "reset" /\ res = "err"
    /\ Len(Events) = 5 /\ Events[5].k = "spi" /\ ~Events[5].ok
    /\ Events[4] = PinEvent("ce", 0, TRUE)

\* the level changes the events E make from the levels p: the pin calls
\* that set a line to a level it does not have
RECURSIVE LevelChanges(_, _)
LevelChanges(E, p) ==
    IF E = <<>> THEN <<>>
    ELSE LET e == Head(E)
         IN IF e.k = "pin" /\ e.ok /\ p[e.pin] # e.lvl
            THEN <<<<e.pin, e.lvl>>>>
                     \o LevelChanges(Tail(E), [p EXCEPT ![e.pin] = e.lvl])
            ELSE LevelChanges(Tail(E), p)

\* C32: a write_byte(data, value) of either backend during which no pin
\* fails makes the pin calls, and with them the level changes of D/C, CE,
\* clock and data line, that the write_byte of the GPIO backend and the
\* write_byte of the SPI backend over the bit-banged transport make from
\* the same levels, in the same order, and leaves the same levels.
C32_BackendsAreInterchangeable ==
    op.name = "write_byte" /\ res = "ok" =>
        LET here == Start(pre.d, pre.pins, chip, 0)
            gpio == gpio_write_byte(here, op.args[1], op.args[2])
            spi == spi_write_byte(here, op.args[1], op.args[2])
        IN /\ gpio.st = "ok" /\ spi.st = "ok"
           /\ log = gpio.log /\ log = spi.log
           /\ pins = gpio.pins /\ pins = spi.pins
           /\ LevelChanges(gpio.log, pre.pins) = LevelChanges(spi.log, pre.pins)
           /\ LevelChanges(log, pre.pins) = LevelChanges(gpio.log, pre.pins)

\* the SPI backend sent the data byte 0xA5: 27 pin calls, 19 of which
\* changed a level
C32_Witness ==
    /\ op.name = "write_byte" /\ op.args = <<TRUE, 165>> /\ res = "ok"
    /\ drv.backend = "spi" /\ pre.pins.dc = 0 /\ pre.pins.din = 0
    /\ Len(log) = 27
    /\ log = gpio_write_byte(Start(pre.d, pre.pins, chip, 0), TRUE, 165).log

\* C33: in every state reached by set_col, set_row, set_position,
\* write_str (with '\r' and '\n' among the characters) and cls, whatever
\* their arguments and whether they return Ok or an error, the text cursor
\* is on the grid: 0 <= text_col <= 13 and 0 <= text_row <= 5.
C33_TextCursorOnGrid ==
    /\ drv.text_col \in 0 .. COLUMNS - 1
    /\ drv.text_row \in 0 .. ROWS - 1

\* write_str("HI") at the last cell (13, 5) wrapped to the first row
C33_Witness ==
    /\ op.name = "write_str" /\ op.args[1] = <<72, 73>> /\ res = "ok"
    /\ pre.d.text_col = 13 /\ pre.d.text_row = 5
    /\ drv.text_col = 1 /\ drv.text_row = 0

\* C34 (as amended): the clock line is low after a construction that
\* returned Ok and after every write that returned Ok and either began with
\* the clock low or wrote at least one byte.
C34_ClockIdlesLow ==
    /\ op.name = "new" /\ res = "ok" => pins.clk = 0
    /\ op.name = "write" /\ res = "ok" /\ (pre.pins.clk = 0 \/ op.args[1] # <<>>)
           => pins.clk = 0

\* a write of two bytes that found the clock high, left there by a failed
\* write, returned Ok and left the clock low
C34_Witness ==
    /\ op.name = "write" /\ res = "ok" /\ op.args[1] = <<128, 1>>
    /\ pre.pins.clk = 1 /\ pins.clk = 0

\* C34 as stated: the clock line is low after a construction that returned
\* Ok and after every write that returned Ok, for any sequence of writes.
C34_AsStated ==
    op.name \in {"new", "write"} /\ res = "ok" => pins.clk = 0

\* C35: clear(color), set_pixel(x, y, color) and draw_iter(pixels) make no
\* pin call and send no byte, so that the pins and the chip are as they
\* were before the call, and return Ok; flush() is the framebuffer
\* operation that reaches the hardware: it sends the 504 bytes of the buffer.
C35_DrawingStaysInMemory ==
    /\ op.name \in {"clear", "set_pixel", "draw_iter"} =>
           /\ res = "ok"
           /\ log = <<>> /\ Events = <<>>
           /\ pins = pre.pins
           /\ Registers(chip) = pre.chip
    /\ op.name = "flush" /\ res = "ok" =>
           /\ Len(Transfers) = 1
           /\ Flat(Transfers) = drv.framebuffer

\* draw_iter of four pixels, two of them on the display, on a dark buffer
\* changed the two corner bytes of the buffer and nothing else
C35_Witness ==
    /\ op.name = "draw_iter" /\ Len(op.args[1]) = 4 /\ res = "ok"
    /\ Len(hist) > setup
    /\ pre.d.framebuffer = Fill(0, DDRAM_SIZE)
    /\ drv.framebuffer[1] = 1 /\ drv.framebuffer[DDRAM_SIZE] = 128
    /\ log = <<>> /\ pins = pre.pins

\* C36: whenever a public operation of the display.rs controller that
\* began with CE high has returned, with Ok or with the error of a pin or
\* of the transport, the CE line is high.
C36_ChipDeselectedOnReturn ==
    pre.pins.ce = 1 /\ res \in {"ok", "err"} => pins.ce = 1

\* the second byte of a command sent in the basic instruction set, if it is
\* a Yaddress or an Xaddress, addresses bank 0..5 or column 0..84
AddressAsserted(code) ==
    /\ code \in 64 .. 127 => code - 64 < 6
    /\ code \in 128 .. 255 => code - 128 <= 84

\* C37: set_col, set_row, set_position, write_str, cls, hw_cls and reset,
\* whatever their arguments and the state they are called in, do not panic:
\* the assertions y < 6 and x <= 84 hold for every Yaddress and Xaddress
\* they send, a column that set_col accepts goes out as 6 * new_col without
\* wrapping a u8, and COLUMNS - text_col is not below zero where write_str
\* computes it.
C37_NoPanicNoOverflow ==
    op.name \in {"set_col", "set_row", "set_position", "write_str", "cls",
                 "hw_cls", "reset"} =>
        LET T == Transfers
        IN /\ res = "ok"
           /\ COLUMNS - pre.d.text_col >= 0 /\ COLUMNS - drv.text_col >= 0
           /\ \A i \in 1 .. Len(T) :
                  T[i].kind = "cmd" /\ Len(T[i].bytes) = 2 /\ T[i].bytes[1] % 2 = 0
                      => AddressAsserted(T[i].bytes[2])
           /\ op.name \in {"set_col", "set_position"} /\ op.args[1] \in 0 .. COLUMNS - 1 =>
                  /\ op.args[1] * 6 <= 255
                  /\ T[1].bytes[2] = 128 + op.args[1] * 6

\* set_position(13, 5), the last cell: Xaddress(78) and Yaddress(5) went out
C37_Witness ==
    /\ op.name = "set_position" /\ op.args = <<13, 5>> /\ res = "ok"
    /\ Flat(Transfers) = <<32, 128 + 78, 32, 64 + 5>>

\* the instructions the chip takes with H = 0, and those it takes with H = 1
BasicSet == {"NOP", "FunctionSet", "SetDisplayMode", "Yaddress", "Xaddress"}

ExtendedSet == {"NOP", "FunctionSet", "SetTempCoefficient", "SetBiasMode", "SetVop"}

\* i and j are the same instruction with the same argument, SetVop arguments
\* taken modulo 128
SameCommand(i, j) ==
    \/ i = j
    \/ i.op = "SetVop" /\ j.op = "SetVop" /\ i.arg % 128 = j.arg % 128

\* C38: within each instruction set the encoding is unambiguous: a valid
\* instruction j that the chip takes in the same mode as the valid
\* instruction i just encoded has the byte() of i only if it is the same
\* instruction with the same argument (SetVop arguments modulo 128).
C38_EncodingUnambiguous ==
    op.name = "byte" /\ res = "ok" =>
        LET i == op.args[1]
        IN \A j \in Instructions :
               /\ byte_asserts(j)
               /\ \/ i.op \in BasicSet /\ j.op \in BasicSet
                  \/ i.op \in ExtendedSet /\ j.op \in ExtendedSet
               /\ byte(j) = ret[1]
               => SameCommand(i, j)

\* SetVop(193) was encoded as 0xC1, the code of SetVop(65), and of
\* Xaddress(65) in the other instruction set only
C38_Witness ==
    /\ op.name = "byte" /\ op.args[1] = SetVop(193) /\ res = "ok" /\ ret = <<193>>
    /\ byte(SetVop(65)) = 193 /\ byte(Xaddress(65)) = 193

\* C39: after a reset() of display.rs that returned Ok, from whatever state
\* it was called in, the shadow flags power_down_control and entry_mode are
\* false, the chip has PD = 0, V = 0, H = 0 and the Normal display mode, its
\* address pointer is (0, 0), and each of the 504 bytes of its DDRAM is 0x00.
C39_ResetEstablishesKnownState ==
    op.name = "reset" /\ res = "ok" =>
        /\ ~drv.power_down_control /\ ~drv.entry_mode
        /\ ~chip.pd /\ ~chip.v /\ ~chip.h
        /\ chip.dm = Normal
        /\ chip.x = 0 /\ chip.y = 0
        /\ Len(chip.ddram) = DDRAM_SIZE
        /\ \A i \in 1 .. DDRAM_SIZE : chip.ddram[i] = 0

\* reset() called on a powered-down driver in vertical addressing, and
\* that returned Ok
C39_Witness ==
    /\ op.name = "reset" /\ res = "ok"
    /\ hist = <<"set_power_down", "reset">> \/ hist = <<"set_entry_mode", "reset">>
    /\ pre.d.power_down_control \/ pre.d.entry_mode
    /\ pre.chip.pd \/ pre.chip.v
    /\ ~chip.pd /\ ~chip.v /\ chip.x = 0 /\ chip.y = 0

====
